---- MODULE Spec2Model ----
(***************************************************************************)
(* A model of the persisted, namespaced B-tree index: the two tables       *)
(* (btree, btreeNode), the engine (insert, delete, get, range filter,      *)
(* pagination) and the public mutations built on it.  Every operator is    *)
(* translated from the TypeScript source; array positions are 0-based as   *)
(* in the source (At, Slice, SliceFrom).                                   *)
(***************************************************************************)
EXTENDS Integers, Sequences, FiniteSets, TLC

---------------------------------------------------------------------------
(* Bounds of the exploration.                                              *)

\* keys are the integers 1..MaxKey
MaxKey == 20
\* the keys 1..SmallKey of the workloads that interleave a walk with mutations
SmallKey == 6
\* number of unconstrained operations after the bulk load
MaxOps == 2

Keys == 1..MaxKey
Values == {"x", "y"}
\* the value the bulk load stores
LoadValue == "x"
\* fanouts handed to init
InitFanouts == {4}
\* the namespaces the workloads touch
UNDEFINED_NS == "undefined"
Namespaces == {"a"}
\* the namespace value null, and the namespaces of the lifecycle workloads
NULL_NS == "null"
AdminNamespaces == {UNDEFINED_NS, NULL_NS, "a"}
\* the keys of the lifecycle workloads
AdminKeys == {1, 2, 3}

---------------------------------------------------------------------------
(* Arrays, optional values, thrown errors.                                 *)

NoErr == "OK"
At(s, i) == s[i + 1]
Slice(s, from, to) == SubSeq(s, from + 1, to)
SliceFrom(s, from) == SubSeq(s, from + 1, Len(s))
Last(s) == s[Len(s)]
Range(s) == {s[j] : j \in 1..Len(s)}
\* an optional value is the empty set (undefined) or a singleton
None == {}
Some(x) == {x}
The(s) == CHOOSE x \in s : TRUE
\* "const x = await e; F(x)": e is computed once and F continues with its value
Bind(e, F(_)) == The({F(x) : x \in {e}})

DEFAULT_MAX_NODE_SIZE == 16

compareValues(a, b) == IF a < b THEN -1 ELSE IF a = b THEN 0 ELSE 1
compareKeys(k1, k2) == compareValues(k1, k2)

---------------------------------------------------------------------------
(* The document store: ctx.db and ctx.scheduler.                           *)
(* db.nodes : node id -> [items, subtrees]      (table btreeNode)          *)
(* db.trees : set of [id, namespace, root, maxNodeSize]   (table btree)    *)
(* db.sched : node ids with a pending deleteTreeNodes work item            *)
(* db.nextTreeId : the next id the store gives a btree document            *)

EmptyDb == [nodes |-> <<>>, trees |-> {}, sched |-> {}, nextTreeId |-> 1]

\* the id of a new document: one that no document and no work item names
\* (the id of a deleted document, which nothing refers to, may come again)
FreshNodeId(db) ==
  LET used == DOMAIN db.nodes \cup db.sched
  IN CHOOSE i \in 1..(Cardinality(used) + 1) :
       i \notin used /\ \A j \in 1..(i - 1) : j \in used

dbInsertNode(db, id, items, subtrees) ==
  [db EXCEPT !.nodes = @ @@ (id :> [items |-> items, subtrees |-> subtrees])]
dbPatchItems(db, id, items) == [db EXCEPT !.nodes[id].items = items]
dbPatchNode(db, id, items, subtrees) ==
  [db EXCEPT !.nodes[id] = [items |-> items, subtrees |-> subtrees]]
dbDeleteNode(db, id) ==
  [db EXCEPT !.nodes = [j \in (DOMAIN @) \ {id} |-> @[j]]]

\* query("btree").withIndex("by_namespace", eq(namespace)): the matching documents
getTree(db, namespace) == {t \in db.trees : t.namespace = namespace}
\* .unique() throws when more than one document matches
getTreeThrows(db, namespace) == Cardinality(getTree(db, namespace)) > 1

MAX_NODE_SIZE(db, namespace) ==
  IF getTree(db, namespace) = {}
  THEN [err |-> "NOT_INITIALIZED", val |-> 0]
  ELSE [err |-> NoErr, val |-> The(getTree(db, namespace)).maxNodeSize]

\* a faulty variant of MIN_NODE_SIZE: only a fanout below 4 is rejected
MIN_NODE_SIZE_AtLeast4(db, namespace) ==
  LET max == MAX_NODE_SIZE(db, namespace)
  IN IF max.err # NoErr THEN max
     ELSE IF max.val < 4
          THEN [err |-> "INVALID_FANOUT", val |-> 0]
          ELSE [err |-> NoErr, val |-> max.val \div 2]

MIN_NODE_SIZE(db, namespace) ==
  LET max == MAX_NODE_SIZE(db, namespace)
  IN IF max.err # NoErr THEN max
     ELSE IF max.val % 2 # 0 \/ max.val < 4
          THEN [err |-> "INVALID_FANOUT", val |-> 0]
          ELSE [err |-> NoErr, val |-> max.val \div 2]

\* a faulty variant of ScanIndex: the position is always the end of the array
ScanIndexEnd(items, key) == Len(items)

\* the loop shared by get, insert and delete: the first index whose key is
\* not smaller than key (compare is -1 or 0), or items.length
ScanIndex(items, key) ==
  LET hits == {j \in 0..(Len(items) - 1) : compareKeys(key, At(items, j).k) # 1}
  IN IF hits = {} THEN Len(items)
     ELSE CHOOSE j \in hits : \A h \in hits : j <= h
FoundAt(items, key, i) ==
  i < Len(items) /\ compareKeys(key, At(items, i).k) = 0

---------------------------------------------------------------------------
(* getOrCreateTree                                                         *)

\* a faulty variant of getOrCreateTree: the Tree of the namespace is not
\* looked for, one is created at every call
getOrCreateTreeAlways(db, namespace, maxNodeSize) ==
  LET root == FreshNodeId(db)
      db1 == dbInsertNode(db, root, <<>>, <<>>)
      newTree == [id |-> db1.nextTreeId, namespace |-> namespace, root |-> root,
                  maxNodeSize |-> IF maxNodeSize # None THEN The(maxNodeSize)
                                  ELSE DEFAULT_MAX_NODE_SIZE]
      db2 == [db1 EXCEPT !.trees = @ \cup {newTree}, !.nextTreeId = @ + 1]
      min == MIN_NODE_SIZE(db2, namespace)
  IN IF min.err # NoErr
     THEN [err |-> min.err, db |-> db2, tree |-> None]
     ELSE [err |-> NoErr, db |-> db2, tree |-> Some(newTree)]

getOrCreateTree(db, namespace, maxNodeSize) ==
  IF getTreeThrows(db, namespace)
  THEN [err |-> "NOT_UNIQUE", db |-> db, tree |-> None]
  ELSE IF getTree(db, namespace) # {}
  THEN [err |-> NoErr, db |-> db, tree |-> getTree(db, namespace)]
  ELSE
    LET root == FreshNodeId(db)
        db1 == dbInsertNode(db, root, <<>>, <<>>)
        inherited == MAX_NODE_SIZE(db1, UNDEFINED_NS)
    IN IF maxNodeSize = None /\ inherited.err # NoErr
       THEN [err |-> inherited.err, db |-> db1, tree |-> None]
       ELSE
         LET effectiveMaxNodeSize ==
               IF maxNodeSize # None THEN The(maxNodeSize) ELSE inherited.val
             newTree == [id |-> db1.nextTreeId, namespace |-> namespace,
                         root |-> root, maxNodeSize |-> effectiveMaxNodeSize]
             db2 == [db1 EXCEPT !.trees = @ \cup {newTree},
                                !.nextTreeId = @ + 1]
             min == MIN_NODE_SIZE(db2, namespace)
         IN IF min.err # NoErr
            THEN [err |-> min.err, db |-> db2, tree |-> None]
            ELSE [err |-> NoErr, db |-> db2, tree |-> Some(newTree)]

---------------------------------------------------------------------------
(* get                                                                     *)

\* a faulty variant of getInNode: the items of an internal node are not
\* compared for equality, only its leaves answer
RECURSIVE getInLeaves(_, _, _)
getInLeaves(db, node, key) ==
  LET n == db.nodes[node]
      i == ScanIndex(n.items, key)
  IN IF Len(n.subtrees) = 0
     THEN IF FoundAt(n.items, key, i) THEN Some(At(n.items, i)) ELSE None
     ELSE getInLeaves(db, At(n.subtrees, IF FoundAt(n.items, key, i) THEN i + 1 ELSE i), key)

RECURSIVE getInNode(_, _, _)
getInNode(db, node, key) ==
  LET n == db.nodes[node]
      i == ScanIndex(n.items, key)
  IN IF FoundAt(n.items, key, i) THEN Some(At(n.items, i))
     ELSE IF Len(n.subtrees) = 0 THEN None
     ELSE getInNode(db, At(n.subtrees, i), key)

\* getTree(...)! : a missing tree makes tree.root throw
getHandler(db, namespace, key) ==
  IF getTreeThrows(db, namespace) THEN [err |-> "NOT_UNIQUE", item |-> None]
  ELSE IF getTree(db, namespace) = {} THEN [err |-> "TYPE_ERROR", item |-> None]
  ELSE [err |-> NoErr,
        item |-> getInNode(db, The(getTree(db, namespace)).root, key)]

---------------------------------------------------------------------------
(* validate                                                                *)

Invalid(e) == [err |-> e, min |-> None, max |-> None, height |-> 0]

\* the first subtree result that threw, if any
FirstInvalid(vs) ==
  IF \E j \in 1..Len(vs) : vs[j].err # NoErr
  THEN Some(vs[CHOOSE j \in 1..Len(vs) :
                 vs[j].err # NoErr /\ \A h \in 1..(j - 1) : vs[h].err = NoErr])
  ELSE None

\* validateNode returns [err, min, max, height]; min and max are absent for
\* a node without items.  A subtree below the root that validated has items,
\* so validatedSubtrees[i].min! and .max! are present where they are read.
RECURSIVE validateNode(_, _, _, _)
validateNode(db, namespace, node, depth) ==
  IF node \notin DOMAIN db.nodes THEN Invalid("MISSING_NODE")
  ELSE
    LET n == db.nodes[node]
        maxNodeSize == MAX_NODE_SIZE(db, namespace)
        minNodeSize == MIN_NODE_SIZE(db, namespace)
    IN IF maxNodeSize.err # NoErr THEN Invalid(maxNodeSize.err)
       ELSE IF Len(n.items) > maxNodeSize.val THEN Invalid("EXCEEDS_MAX_SIZE")
       ELSE IF depth > 0 /\ minNodeSize.err # NoErr THEN Invalid(minNodeSize.err)
       ELSE IF depth > 0 /\ Len(n.items) < minNodeSize.val THEN Invalid("LESS_THAN_MIN_SIZE")
       ELSE IF Len(n.subtrees) > 0 /\ Len(n.items) + 1 # Len(n.subtrees)
       THEN Invalid("KEYS_DO_NOT_MATCH_SUBTREES")
       ELSE IF Len(n.subtrees) > 0 /\ Len(n.items) = 0 THEN Invalid("SUBTREE_BUT_NO_KEYS")
       ELSE IF \E i \in 1..(Len(n.items) - 1) :
                 compareKeys(At(n.items, i - 1).k, At(n.items, i).k) # -1
       THEN Invalid("KEYS_NOT_IN_ORDER")
       ELSE
         Bind([j \in 1..Len(n.subtrees) |->
                 validateNode(db, namespace, n.subtrees[j], depth + 1)],
           LAMBDA validatedSubtrees :
             IF FirstInvalid(validatedSubtrees) # None
             THEN The(FirstInvalid(validatedSubtrees))
             ELSE IF \E i \in 1..(Len(n.subtrees) - 1) :
                       \/ At(validatedSubtrees, i).min = None
                       \/ compareKeys(The(At(validatedSubtrees, i).min),
                                      At(n.items, i - 1).k) # 1
             THEN Invalid("SUBTREE_MIN_TOO_SMALL")
             ELSE IF \E i \in 0..(Len(n.items) - 1) :
                       /\ i < Len(n.subtrees)
                       /\ \/ At(validatedSubtrees, i).max = None
                          \/ compareKeys(The(At(validatedSubtrees, i).max),
                                         At(n.items, i).k) # -1
             THEN Invalid("SUBTREE_MAX_TOO_LARGE")
             ELSE IF \E i \in 1..(Len(n.subtrees) - 1) :
                       At(validatedSubtrees, i).height # At(validatedSubtrees, 0).height
             THEN Invalid("DIFFERENT_HEIGHT")
             ELSE
               [err |-> NoErr,
                min |-> IF Len(validatedSubtrees) > 0 THEN validatedSubtrees[1].min
                        ELSE IF Len(n.items) > 0 THEN Some(n.items[1].k) ELSE None,
                max |-> IF Len(validatedSubtrees) > 0 THEN Last(validatedSubtrees).max
                        ELSE IF Len(n.items) > 0 THEN Some(Last(n.items).k) ELSE None,
                height |-> IF Len(validatedSubtrees) > 0
                           THEN 1 + validatedSubtrees[1].height ELSE 0])

\* validateTree returns nothing: it throws or it does not
validateTree(db, namespace) ==
  IF getTreeThrows(db, namespace) THEN [err |-> "NOT_UNIQUE"]
  ELSE IF getTree(db, namespace) = {} THEN [err |-> NoErr]
  ELSE [err |-> validateNode(db, namespace, The(getTree(db, namespace)).root, 0).err]

---------------------------------------------------------------------------
(* insert                                                                  *)

NoItem == [k |-> 0, v |-> ""]
NoPushUp == [has |-> FALSE, item |-> NoItem, leftSubtree |-> 0, rightSubtree |-> 0]
InsertThrown(e, db) == [err |-> e, db |-> db, pushUp |-> NoPushUp]

\* a faulty variant of splitIfOverflow: a node is split one item too late
\* (items.length > maxNodeSize + 1)
splitLate(db, namespace, node) ==
  LET newN == db.nodes[node]
      maxNodeSize == MAX_NODE_SIZE(db, namespace)
      minNodeSize == MIN_NODE_SIZE(db, namespace)
  IN IF maxNodeSize.err # NoErr THEN InsertThrown(maxNodeSize.err, db)
     ELSE IF minNodeSize.err # NoErr THEN InsertThrown(minNodeSize.err, db)
     ELSE IF Len(newN.items) > maxNodeSize.val + 1
     THEN
       LET m == minNodeSize.val
           db1 == dbPatchNode(db, node, Slice(newN.items, 0, m),
                    IF Len(newN.subtrees) # 0
                    THEN Slice(newN.subtrees, 0, m + 1) ELSE <<>>)
           splitN == FreshNodeId(db1)
       IN [err |-> NoErr,
           db |-> dbInsertNode(db1, splitN, SliceFrom(newN.items, m + 1),
                    IF Len(newN.subtrees) # 0
                    THEN SliceFrom(newN.subtrees, m + 1) ELSE <<>>),
           pushUp |-> [has |-> TRUE, item |-> At(newN.items, m),
                       leftSubtree |-> node, rightSubtree |-> splitN]]
     ELSE [err |-> NoErr, db |-> db, pushUp |-> NoPushUp]

\* a faulty variant of splitIfOverflow: the left node keeps the median item
\* that is also pushed up (slice(0, minNodeSize + 1))
splitKeepingMedian(db, namespace, node) ==
  LET newN == db.nodes[node]
      maxNodeSize == MAX_NODE_SIZE(db, namespace)
      m == MIN_NODE_SIZE(db, namespace).val
  IN IF maxNodeSize.err = NoErr /\ Len(newN.items) > maxNodeSize.val
     THEN
       LET db1 == dbPatchNode(db, node, Slice(newN.items, 0, m + 1),
                    IF Len(newN.subtrees) # 0
                    THEN Slice(newN.subtrees, 0, m + 1) ELSE <<>>)
           splitN == FreshNodeId(db1)
       IN [err |-> NoErr,
           db |-> dbInsertNode(db1, splitN, SliceFrom(newN.items, m + 1),
                    IF Len(newN.subtrees) # 0
                    THEN SliceFrom(newN.subtrees, m + 1) ELSE <<>>),
           pushUp |-> [has |-> TRUE, item |-> At(newN.items, m),
                       leftSubtree |-> node, rightSubtree |-> splitN]]
     ELSE [err |-> maxNodeSize.err, db |-> db, pushUp |-> NoPushUp]

\* a faulty variant of splitIfOverflow: the new right sibling gets the items
\* but none of the subtrees
splitLeavingSubtrees(db, namespace, node) ==
  LET newN == db.nodes[node]
      maxNodeSize == MAX_NODE_SIZE(db, namespace)
      m == MIN_NODE_SIZE(db, namespace).val
  IN IF maxNodeSize.err = NoErr /\ Len(newN.items) > maxNodeSize.val
     THEN
       LET db1 == dbPatchNode(db, node, Slice(newN.items, 0, m),
                    IF Len(newN.subtrees) # 0
                    THEN Slice(newN.subtrees, 0, m + 1) ELSE <<>>)
           splitN == FreshNodeId(db1)
       IN [err |-> NoErr,
           db |-> dbInsertNode(db1, splitN, SliceFrom(newN.items, m + 1), <<>>),
           pushUp |-> [has |-> TRUE, item |-> At(newN.items, m),
                       leftSubtree |-> node, rightSubtree |-> splitN]]
     ELSE [err |-> maxNodeSize.err, db |-> db, pushUp |-> NoPushUp]

\* step 4 of insertIntoNode: reload the node and split it when it overflows
splitIfOverflow(db, namespace, node) ==
  LET newN == db.nodes[node]
      maxNodeSize == MAX_NODE_SIZE(db, namespace)
      minNodeSize == MIN_NODE_SIZE(db, namespace)
  IN IF maxNodeSize.err # NoErr THEN InsertThrown(maxNodeSize.err, db)
     ELSE IF minNodeSize.err # NoErr THEN InsertThrown(minNodeSize.err, db)
     ELSE IF Len(newN.items) > maxNodeSize.val
     THEN IF \/ Len(newN.items) # maxNodeSize.val + 1
             \/ Len(newN.items) # 2 * minNodeSize.val + 1
          THEN InsertThrown("BAD_SIZE", db)
          ELSE
            LET m == minNodeSize.val
                db1 == dbPatchNode(db, node,
                         Slice(newN.items, 0, m),
                         IF Len(newN.subtrees) # 0
                         THEN Slice(newN.subtrees, 0, m + 1) ELSE <<>>)
                splitN == FreshNodeId(db1)
                db2 == dbInsertNode(db1, splitN,
                         SliceFrom(newN.items, m + 1),
                         IF Len(newN.subtrees) # 0
                         THEN SliceFrom(newN.subtrees, m + 1) ELSE <<>>)
            IN [err |-> NoErr, db |-> db2,
                pushUp |-> [has |-> TRUE, item |-> At(newN.items, m),
                            leftSubtree |-> node, rightSubtree |-> splitN]]
     ELSE [err |-> NoErr, db |-> db, pushUp |-> NoPushUp]

\* a faulty variant of duplicateKey: only a leaf rejects a key it holds
duplicateKeyInLeaf(n, item, i) ==
  Len(n.subtrees) = 0 /\ FoundAt(n.items, item.k, i)

\* the scan of insertIntoNode met an item that compares equal: "already exists"
duplicateKey(n, item, i) == FoundAt(n.items, item.k, i)

RECURSIVE insertIntoNode(_, _, _, _)
insertIntoNode(db, namespace, node, item) ==
  LET n == db.nodes[node]
      i == ScanIndex(n.items, item.k)
  IN IF duplicateKey(n, item, i) THEN InsertThrown("DUPLICATE_KEY", db)
     ELSE IF Len(n.subtrees) > 0
     THEN
       Bind(insertIntoNode(db, namespace, At(n.subtrees, i), item), LAMBDA r :
         IF r.err # NoErr THEN r
         ELSE IF r.pushUp.has
         THEN splitIfOverflow(
                dbPatchNode(r.db, node,
                  Slice(n.items, 0, i) \o <<r.pushUp.item>> \o SliceFrom(n.items, i),
                  Slice(n.subtrees, 0, i)
                    \o <<r.pushUp.leftSubtree, r.pushUp.rightSubtree>>
                    \o SliceFrom(n.subtrees, i + 1)),
                namespace, node)
         ELSE splitIfOverflow(r.db, namespace, node))
     ELSE splitIfOverflow(
            dbPatchItems(db, node,
              Slice(n.items, 0, i) \o <<item>> \o SliceFrom(n.items, i)),
            namespace, node)

\* a faulty variant of insertHandler: the Tree is created without a
\* maxNodeSize, so it takes the fanout of the undefined namespace's Tree
insertHandlerInheriting(db, namespace, key, value) ==
  LET t == getOrCreateTree(db, namespace, None)
  IN IF t.err # NoErr THEN [err |-> t.err, db |-> t.db]
     ELSE
       LET tree == The(t.tree)
       IN Bind(insertIntoNode(t.db, namespace, tree.root, [k |-> key, v |-> value]),
            LAMBDA r :
              IF r.err # NoErr THEN [err |-> r.err, db |-> r.db]
              ELSE IF r.pushUp.has
              THEN
                LET newRoot == FreshNodeId(r.db)
                    db1 == dbInsertNode(r.db, newRoot, <<r.pushUp.item>>,
                             <<r.pushUp.leftSubtree, r.pushUp.rightSubtree>>)
                IN [err |-> NoErr,
                    db |-> [db1 EXCEPT !.trees =
                              (@ \ {tree}) \cup {[tree EXCEPT !.root = newRoot]}]]
              ELSE [err |-> NoErr, db |-> r.db])

insertHandler(db, namespace, key, value) ==
  LET t == getOrCreateTree(db, namespace, Some(DEFAULT_MAX_NODE_SIZE))
  IN IF t.err # NoErr THEN [err |-> t.err, db |-> t.db]
     ELSE
       LET tree == The(t.tree)
       IN Bind(insertIntoNode(t.db, namespace, tree.root, [k |-> key, v |-> value]),
            LAMBDA r :
              IF r.err # NoErr THEN [err |-> r.err, db |-> r.db]
              ELSE IF r.pushUp.has
              THEN
                LET newRoot == FreshNodeId(r.db)
                    db1 == dbInsertNode(r.db, newRoot, <<r.pushUp.item>>,
                             <<r.pushUp.leftSubtree, r.pushUp.rightSubtree>>)
                IN [err |-> NoErr,
                    db |-> [db1 EXCEPT !.trees =
                              (@ \ {tree}) \cup {[tree EXCEPT !.root = newRoot]}]]
              ELSE [err |-> NoErr, db |-> r.db])

---------------------------------------------------------------------------
(* delete                                                                  *)

\* a faulty variant of DeleteThrown: nothing is thrown, the caller is told
\* that nothing was deleted
DeleteReturnsNull(e, db) == [err |-> NoErr, db |-> db, deleted |-> None]

\* throw new ConvexError({code: e, ...})
DeleteThrown(e, db) == [err |-> e, db |-> db, deleted |-> None]

RECURSIVE findMax(_, _)
findMax(db, node) ==
  LET n == db.nodes[node]
  IN IF Len(n.subtrees) > 0 THEN findMax(db, Last(n.subtrees))
     ELSE Last(n.items)

\* a faulty variant of mergeNodes: the right sibling, now empty of use, is
\* not deleted
mergeNodesKeepingRight(db, parentId, parent, leftIndex) ==
  LET leftId == At(parent.subtrees, leftIndex)
      rightId == At(parent.subtrees, leftIndex + 1)
      left == db.nodes[leftId]
      right == db.nodes[rightId]
      db1 == dbPatchNode(db, leftId,
               left.items \o <<At(parent.items, leftIndex)>> \o right.items,
               left.subtrees \o right.subtrees)
      db2 == dbPatchNode(db1, parentId,
               Slice(parent.items, 0, leftIndex) \o SliceFrom(parent.items, leftIndex + 1),
               Slice(parent.subtrees, 0, leftIndex + 1)
                 \o SliceFrom(parent.subtrees, leftIndex + 2))
  IN db2

mergeNodes(db, parentId, parent, leftIndex) ==
  LET leftId == At(parent.subtrees, leftIndex)
      rightId == At(parent.subtrees, leftIndex + 1)
      left == db.nodes[leftId]
      right == db.nodes[rightId]
      db1 == dbPatchNode(db, leftId,
               left.items \o <<At(parent.items, leftIndex)>> \o right.items,
               left.subtrees \o right.subtrees)
      db2 == dbPatchNode(db1, parentId,
               Slice(parent.items, 0, leftIndex) \o SliceFrom(parent.items, leftIndex + 1),
               Slice(parent.subtrees, 0, leftIndex + 1)
                 \o SliceFrom(parent.subtrees, leftIndex + 2))
  IN dbDeleteNode(db2, rightId)

\* a faulty variant of rotateRight: the separator items[i-1] of the parent is
\* copied down but not replaced by the last item of the left sibling
rotateRightKeepSeparator(db, node, n, i) ==
  LET defId == At(n.subtrees, i)
      deficientSubtree == db.nodes[defId]
      leftId == At(n.subtrees, i - 1)
      leftSibling == db.nodes[leftId]
      grandchild == Len(leftSibling.subtrees) # 0
      db1 == dbPatchNode(db, defId,
               <<At(n.items, i - 1)>> \o deficientSubtree.items,
               IF grandchild
               THEN <<Last(leftSibling.subtrees)>> \o deficientSubtree.subtrees
               ELSE <<>>)
  IN dbPatchNode(db1, leftId,
       Slice(leftSibling.items, 0, Len(leftSibling.items) - 1),
       IF grandchild
       THEN Slice(leftSibling.subtrees, 0, Len(leftSibling.subtrees) - 1)
       ELSE <<>>)

\* Rotation Option 1: borrow the last item of the left sibling through items[i-1]
rotateRight(db, node, n, i) ==
  LET defId == At(n.subtrees, i)
      deficientSubtree == db.nodes[defId]
      leftId == At(n.subtrees, i - 1)
      leftSibling == db.nodes[leftId]
      grandchild == Len(leftSibling.subtrees) # 0
      db1 == dbPatchNode(db, defId,
               <<At(n.items, i - 1)>> \o deficientSubtree.items,
               IF grandchild
               THEN <<Last(leftSibling.subtrees)>> \o deficientSubtree.subtrees
               ELSE <<>>)
      db2 == dbPatchNode(db1, leftId,
               Slice(leftSibling.items, 0, Len(leftSibling.items) - 1),
               IF grandchild
               THEN Slice(leftSibling.subtrees, 0, Len(leftSibling.subtrees) - 1)
               ELSE <<>>)
  IN dbPatchItems(db2, node,
       Slice(n.items, 0, i - 1) \o <<Last(leftSibling.items)>> \o SliceFrom(n.items, i))

\* Rotation Option 2: borrow the first item of the right sibling through items[i]
rotateLeft(db, node, n, i) ==
  LET defId == At(n.subtrees, i)
      deficientSubtree == db.nodes[defId]
      rightId == At(n.subtrees, i + 1)
      rightSibling == db.nodes[rightId]
      grandchild == Len(rightSibling.subtrees) # 0
      db1 == dbPatchNode(db, defId,
               deficientSubtree.items \o <<At(n.items, i)>>,
               IF grandchild
               THEN deficientSubtree.subtrees \o <<At(rightSibling.subtrees, 0)>>
               ELSE <<>>)
      db2 == dbPatchNode(db1, rightId,
               SliceFrom(rightSibling.items, 1),
               IF grandchild THEN SliceFrom(rightSibling.subtrees, 1) ELSE <<>>)
  IN dbPatchItems(db2, node,
       Slice(n.items, 0, i) \o <<At(rightSibling.items, 0)>> \o SliceFrom(n.items, i + 1))

\* a faulty variant of rebalanceRule: the right sibling is asked first
rebalanceRuleRightFirst(db, n, i, minNodeSize) ==
  IF ~(Len(db.nodes[At(n.subtrees, i)].items) < minNodeSize) THEN "none"
  ELSE IF /\ i < Len(n.subtrees) - 1
          /\ Len(db.nodes[At(n.subtrees, i + 1)].items) > minNodeSize
  THEN "rotateLeft"
  ELSE IF i > 0 /\ Len(db.nodes[At(n.subtrees, i - 1)].items) > minNodeSize
  THEN "rotateRight"
  ELSE IF i > 0 THEN "mergeLeft" ELSE "mergeRight"

\* a faulty variant of rebalanceRule: a deficient child is left as it is
rebalanceRuleNone(db, n, i, minNodeSize) == "none"

\* the rule the rebalancing step of deleteFromNode applies to child i of n:
\* "none", "rotateRight", "rotateLeft", "mergeLeft", "mergeRight"
rebalanceRule(db, n, i, minNodeSize) ==
  IF ~(Len(db.nodes[At(n.subtrees, i)].items) < minNodeSize) THEN "none"
  ELSE IF i > 0 /\ Len(db.nodes[At(n.subtrees, i - 1)].items) > minNodeSize
  THEN "rotateRight"
  ELSE IF /\ i < Len(n.subtrees) - 1
          /\ Len(db.nodes[At(n.subtrees, i + 1)].items) > minNodeSize
  THEN "rotateLeft"
  ELSE IF i > 0 THEN "mergeLeft" ELSE "mergeRight"

\* lines 412-502 of deleteFromNode: rebalance child i of node after the
\* recursive delete returned
rebalance(db, namespace, node, n, i) ==
  LET minNodeSize == MIN_NODE_SIZE(db, namespace)
  IN IF minNodeSize.err # NoErr THEN [err |-> minNodeSize.err, db |-> db]
     ELSE
       LET rule == rebalanceRule(db, n, i, minNodeSize.val)
       IN [err |-> NoErr,
           db |-> CASE rule = "none" -> db
                    [] rule = "rotateRight" -> rotateRight(db, node, n, i)
                    [] rule = "rotateLeft" -> rotateLeft(db, node, n, i)
                    [] rule = "mergeLeft" -> mergeNodes(db, node, n, i - 1)
                    [] rule = "mergeRight" -> mergeNodes(db, node, n, i)]

RECURSIVE deleteFromNode(_, _, _, _)
deleteFromNode(db, namespace, node, key) ==
  LET n0 == db.nodes[node]
      i == ScanIndex(n0.items, key)
      found == FoundAt(n0.items, key, i)
  IN IF found /\ Len(n0.subtrees) = 0
     THEN \* CASE 1: the key is in this leaf
          [err |-> NoErr,
           db |-> dbPatchItems(db, node,
                    Slice(n0.items, 0, i) \o SliceFrom(n0.items, i + 1)),
           deleted |-> Some(At(n0.items, i))]
     ELSE
       LET \* CASE 2: the key is in this internal node
           predecessor == findMax(db, At(n0.subtrees, i))
           db1 == IF found
                  THEN dbPatchItems(db, node,
                         Slice(n0.items, 0, i) \o <<predecessor>>
                           \o SliceFrom(n0.items, i + 1))
                  ELSE db
           n == db1.nodes[node]
           key1 == IF found THEN predecessor.k ELSE key
       IN IF Len(n.subtrees) = 0 THEN DeleteThrown("DELETE_MISSING_KEY", db1)
          ELSE
            Bind(deleteFromNode(db1, namespace, At(n.subtrees, i), key1), LAMBDA r :
              IF r.err # NoErr THEN r
              ELSE IF r.deleted = None THEN r
              ELSE
                LET foundItem == IF found THEN Some(At(n0.items, i)) ELSE r.deleted
                IN Bind(rebalance(r.db, namespace, node, n, i), LAMBDA b :
                     IF b.err # NoErr THEN DeleteThrown(b.err, b.db)
                     ELSE [err |-> NoErr, db |-> b.db, deleted |-> foundItem]))

\* a faulty variant of deleteHandler: a root left without items keeps its
\* place above its only child
deleteHandlerKeepingRoot(db, namespace, key) ==
  LET t == getOrCreateTree(db, namespace, Some(DEFAULT_MAX_NODE_SIZE))
  IN IF t.err # NoErr THEN [err |-> t.err, db |-> t.db]
     ELSE Bind(deleteFromNode(t.db, namespace, The(t.tree).root, key), LAMBDA r :
            [err |-> r.err, db |-> r.db])

deleteHandler(db, namespace, key) ==
  LET t == getOrCreateTree(db, namespace, Some(DEFAULT_MAX_NODE_SIZE))
  IN IF t.err # NoErr THEN [err |-> t.err, db |-> t.db]
     ELSE
       LET tree == The(t.tree)
       IN Bind(deleteFromNode(t.db, namespace, tree.root, key), LAMBDA r :
            IF r.err # NoErr THEN [err |-> r.err, db |-> r.db]
            ELSE
              LET root == r.db.nodes[tree.root]
              IN IF Len(root.items) = 0 /\ Len(root.subtrees) = 1
                 THEN [err |-> NoErr,
                       db |-> dbDeleteNode(
                                [r.db EXCEPT !.trees = (@ \ {tree})
                                   \cup {[tree EXCEPT !.root = At(root.subtrees, 0)]}],
                                tree.root)]
                 ELSE [err |-> NoErr, db |-> r.db])

---------------------------------------------------------------------------
(* Range filter and pagination.                                            *)

\* a WithinBounds contribution: an item, or a whole subtree
ItemContribution(item) == [type |-> "item", item |-> item, subtree |-> 0]
SubtreeContribution(id) == [type |-> "subtree", item |-> NoItem, subtree |-> id]

\* a faulty variant of Reverse: the array is left in ascending order
NoReverse(s) == s
Reverse(s) == [j \in 1..Len(s) |-> s[Len(s) + 1 - j]]

RECURSIVE filterBetween(_, _, _, _)
RECURSIVE filterLoop(_, _, _, _, _, _)

\* a faulty variant of includeSubtree: a subtree is always taken whole
includeSubtreeWhole(db, n, k1, k2, i, unboundedRight, included) ==
  [count |-> included.count + 1,
   out |-> included.out \o <<SubtreeContribution(At(n.subtrees, i))>>]

\* included is [count, out]: the number of entries pushed so far (an entry is
\* a contribution, or the pending result of a recursive call, which may
\* resolve to nothing) and the contributions they flatten to
includeSubtree(db, n, k1, k2, i, unboundedRight, included) ==
  LET unboundedLeft == k1 = None \/ included.count > 0
  IN IF unboundedLeft /\ unboundedRight
     THEN [count |-> included.count + 1,
           out |-> included.out \o <<SubtreeContribution(At(n.subtrees, i))>>]
     ELSE [count |-> included.count + 1,
           out |-> included.out \o
                     filterBetween(db, At(n.subtrees, i),
                       IF unboundedLeft THEN None ELSE k1,
                       IF unboundedRight THEN None ELSE k2)]

\* the for loop of filterBetween from index i on, and the statements after it
filterLoop(db, n, k1, k2, i, included) ==
  IF i < Len(n.items)
  THEN
    LET k1IsLeft == k1 = None \/ compareKeys(The(k1), At(n.items, i).k) = -1
        k2IsRight == k2 = None \/ compareKeys(The(k2), At(n.items, i).k) = 1
    IN Bind(IF k1IsLeft /\ Len(n.subtrees) > 0
            THEN includeSubtree(db, n, k1, k2, i, k2IsRight, included)
            ELSE included,
         LAMBDA inc1 :
           IF ~k2IsRight THEN inc1.out
           ELSE filterLoop(db, n, k1, k2, i + 1,
                  IF k1IsLeft
                  THEN [count |-> inc1.count + 1,
                        out |-> inc1.out \o <<ItemContribution(At(n.items, i))>>]
                  ELSE inc1))
  ELSE IF Len(n.subtrees) > 0
       THEN includeSubtree(db, n, k1, k2, Len(n.subtrees) - 1, k2 = None, included).out
       ELSE included.out

filterBetween(db, node, k1, k2) ==
  filterLoop(db, db.nodes[node], k1, k2, 0, [count |-> 0, out |-> <<>>])

\* A cursor is a string: a sequence of characters.  The key of an item is
\* written as JSON text (JSON.stringify(convexToJson(k))): for the integer
\* keys of the model, its decimal digits.
Digits == <<"0", "1", "2", "3", "4", "5", "6", "7", "8", "9">>
RECURSIVE encodeCursor(_)
encodeCursor(k) ==
  IF k < 10 THEN <<Digits[k + 1]>>
  ELSE encodeCursor(k \div 10) \o <<Digits[(k % 10) + 1]>>
DigitValue(c) == CHOOSE d \in 0..9 : Digits[d + 1] = c
RECURSIVE decodeCursor(_)
decodeCursor(cursor) ==
  IF Len(cursor) = 1 THEN DigitValue(cursor[1])
  ELSE 10 * decodeCursor(SubSeq(cursor, 1, Len(cursor) - 1)) + DigitValue(Last(cursor))

EndOfWalk == [err |-> NoErr, page |-> <<>>, cursor |-> <<>>, isDone |-> TRUE]

RECURSIVE paginateInNode(_, _, _, _, _, _, _)
RECURSIVE paginateLoop(_, _, _, _, _, _)

\* a faulty variant of paginateLoop: a subtree is asked for limit items,
\* not for the limit - items.length the page still has room for
paginateLoopFullLimit(db, filtered, j, items, limit, order) ==
  IF j > Len(filtered)
  THEN [err |-> NoErr, page |-> items, cursor |-> <<>>, isDone |-> TRUE]
  ELSE IF Len(items) >= limit
  THEN [err |-> NoErr, page |-> items,
        cursor |-> encodeCursor(Last(items).k), isDone |-> FALSE]
  ELSE IF filtered[j].type = "item"
  THEN paginateLoop(db, filtered, j + 1, Append(items, filtered[j].item), limit, order)
  ELSE
    Bind(paginateInNode(db, filtered[j].subtree, limit, order, None, None, None),
      LAMBDA r :
        IF r.err # NoErr THEN r
        ELSE IF ~r.isDone
        THEN [err |-> NoErr, page |-> items \o r.page,
              cursor |-> r.cursor, isDone |-> FALSE]
        ELSE paginateLoop(db, filtered, j + 1, items \o r.page, limit, order))

\* the for loop of paginateInNode over filtered from position j on (1-based),
\* and the return after it
paginateLoop(db, filtered, j, items, limit, order) ==
  IF j > Len(filtered)
  THEN [err |-> NoErr, page |-> items, cursor |-> <<>>, isDone |-> TRUE]
  ELSE IF Len(items) >= limit
  THEN [err |-> NoErr, page |-> items,
        cursor |-> encodeCursor(Last(items).k), isDone |-> FALSE]
  ELSE IF filtered[j].type = "item"
  THEN paginateLoop(db, filtered, j + 1, Append(items, filtered[j].item), limit, order)
  ELSE
    Bind(paginateInNode(db, filtered[j].subtree, limit - Len(items), order,
                        None, None, None),
      LAMBDA r :
        IF r.err # NoErr THEN r
        ELSE IF ~r.isDone
        THEN [err |-> NoErr, page |-> items \o r.page,
              cursor |-> r.cursor, isDone |-> FALSE]
        ELSE paginateLoop(db, filtered, j + 1, items \o r.page, limit, order))

paginateInNode(db, node, limit, order, cursor, k1, k2) ==
  IF limit <= 0
  THEN [err |-> "LIMIT_NOT_POSITIVE", page |-> <<>>, cursor |-> <<>>, isDone |-> FALSE]
  ELSE IF cursor # None /\ Len(The(cursor)) = 0 THEN EndOfWalk
  ELSE
    LET startKey == IF cursor = None \/ order = "desc" THEN k1
                    ELSE Some(decodeCursor(The(cursor)))
        endKey == IF cursor = None \/ order = "asc" THEN k2
                  ELSE Some(decodeCursor(The(cursor)))
    IN Bind(filterBetween(db, node, startKey, endKey), LAMBDA found :
         Bind(IF order = "desc" THEN Reverse(found) ELSE found, LAMBDA filtered :
           paginateLoop(db, filtered, 1, <<>>, limit, order)))

paginateHandler(db, namespace, limit, order, cursor, k1, k2) ==
  IF getTreeThrows(db, namespace)
  THEN [err |-> "NOT_UNIQUE", page |-> <<>>, cursor |-> <<>>, isDone |-> FALSE]
  ELSE IF getTree(db, namespace) = {} THEN EndOfWalk
  ELSE paginateInNode(db, The(getTree(db, namespace)).root,
                      limit, order, cursor, k1, k2)

\* SearchTree.iter without bounds: the items of every page, in the order yielded
RECURSIVE iterLoop(_, _, _, _, _, _)
iterLoop(db, namespace, order, pageSize, cursor, yielded) ==
  Bind(paginateHandler(db, namespace, pageSize, order, cursor, None, None),
    LAMBDA r :
      IF r.err # NoErr \/ r.isDone THEN yielded \o r.page
      ELSE iterLoop(db, namespace, order, pageSize, Some(r.cursor), yielded \o r.page))
iter(db, namespace, order, pageSize) ==
  iterLoop(db, namespace, order, pageSize, None, <<>>)

---------------------------------------------------------------------------
(* The public mutations.  Each returns [err, db]: the error the mutation   *)
(* throws (NoErr when it returns) and the store as its writes left it.  A  *)
(* mutation that throws is rolled back by the host: see Commit.            *)

\* a faulty variant of init: an existing Tree is not looked for
initUnchecked(db, namespace, maxNodeSize) ==
  LET t == getOrCreateTree(db, namespace,
             IF maxNodeSize # None THEN maxNodeSize ELSE Some(DEFAULT_MAX_NODE_SIZE))
  IN [err |-> t.err, db |-> t.db]

init(db, namespace, maxNodeSize) ==
  IF getTreeThrows(db, namespace) THEN [err |-> "NOT_UNIQUE", db |-> db]
  ELSE IF getTree(db, namespace) # {} THEN [err |-> "ALREADY_INITIALIZED", db |-> db]
  ELSE
    LET t == getOrCreateTree(db, namespace,
               IF maxNodeSize # None THEN maxNodeSize ELSE Some(DEFAULT_MAX_NODE_SIZE))
    IN [err |-> t.err, db |-> t.db]

\* a faulty variant of insert: the namespace argument is not handed on
insertWithoutNamespace(db, namespace, key, value) ==
  insertHandler(db, UNDEFINED_NS, key, value)

insert(db, namespace, key, value) == insertHandler(db, namespace, key, value)

delete_(db, namespace, key) == deleteHandler(db, namespace, key)

\* a faulty variant of replace: a missing currentKey is ignored, as
\* replaceOrInsert does
replaceIgnoringMissing(db, namespace, newNamespace, currentKey, newKey, value) ==
  Bind(deleteHandler(db, namespace, currentKey), LAMBDA d :
    IF d.err # NoErr /\ d.err # "DELETE_MISSING_KEY" THEN d
    ELSE insertHandler(d.db, newNamespace, newKey, value))

replace(db, namespace, newNamespace, currentKey, newKey, value) ==
  Bind(deleteHandler(db, namespace, currentKey), LAMBDA d :
    IF d.err # NoErr THEN d
    ELSE insertHandler(d.db, newNamespace, newKey, value))

\* a faulty variant of deleteIfExists: the writes made before the error that
\* is caught are dropped
deleteIfExistsDiscarding(db, namespace, key) ==
  Bind(deleteHandler(db, namespace, key), LAMBDA d :
    IF d.err = "DELETE_MISSING_KEY" THEN [err |-> NoErr, db |-> db]
    ELSE d)

\* a faulty variant of deleteIfExists: the catch swallows every error
deleteIfExistsCatchAll(db, namespace, key) ==
  Bind(deleteHandler(db, namespace, key), LAMBDA d :
    IF d.err # NoErr THEN [err |-> NoErr, db |-> d.db]
    ELSE d)

deleteIfExists(db, namespace, key) ==
  Bind(deleteHandler(db, namespace, key), LAMBDA d :
    IF d.err = "DELETE_MISSING_KEY" THEN [err |-> NoErr, db |-> d.db]
    ELSE d)

\* a faulty variant of replaceOrInsert: when the delete found nothing, the
\* insert is skipped
replaceOrSkip(db, namespace, newNamespace, currentKey, newKey, value) ==
  Bind(deleteHandler(db, namespace, currentKey), LAMBDA d :
    IF d.err = "DELETE_MISSING_KEY" THEN [err |-> NoErr, db |-> d.db]
    ELSE IF d.err # NoErr THEN d
    ELSE insertHandler(d.db, newNamespace, newKey, value))

replaceOrInsert(db, namespace, newNamespace, currentKey, newKey, value) ==
  Bind(deleteHandler(db, namespace, currentKey), LAMBDA d :
    IF d.err # NoErr /\ d.err # "DELETE_MISSING_KEY" THEN d
    ELSE insertHandler(d.db, newNamespace, newKey, value))

\* a faulty variant of clear: the deletion of the nodes is handed to the
\* scheduler, but the Tree document stays and keeps its root
clearSchedulingOnly(db, namespace, maxNodeSize) ==
  IF getTreeThrows(db, namespace) THEN [err |-> "NOT_UNIQUE", db |-> db]
  ELSE
    LET tree == getTree(db, namespace)
        db1 == IF tree # {}
               THEN [db EXCEPT !.sched = @ \cup {The(tree).root}]
               ELSE db
        t == getOrCreateTree(db1, namespace,
               IF maxNodeSize # None THEN maxNodeSize
               ELSE Some(DEFAULT_MAX_NODE_SIZE))
    IN [err |-> t.err, db |-> t.db]

\* a faulty variant of clear: the Tree document is not deleted, only its
\* fanout is looked up
clearKeepingTree(db, namespace, maxNodeSize) ==
  IF getTreeThrows(db, namespace) THEN [err |-> "NOT_UNIQUE", db |-> db]
  ELSE
    LET tree == getTree(db, namespace)
        existingMaxNodeSize ==
          IF tree # {} THEN The(tree).maxNodeSize ELSE DEFAULT_MAX_NODE_SIZE
        t == getOrCreateTree(db, namespace,
               IF maxNodeSize # None THEN maxNodeSize ELSE Some(existingMaxNodeSize))
    IN [err |-> t.err, db |-> t.db]

\* clear: the Tree document is deleted, the deletion of its nodes is handed
\* to the scheduler, and a Tree is created again
clear(db, namespace, maxNodeSize) ==
  IF getTreeThrows(db, namespace) THEN [err |-> "NOT_UNIQUE", db |-> db]
  ELSE
    LET tree == getTree(db, namespace)
        db1 == IF tree # {}
               THEN [db EXCEPT !.trees = @ \ tree,
                               !.sched = @ \cup {The(tree).root}]
               ELSE db
        existingMaxNodeSize ==
          IF tree # {} THEN The(tree).maxNodeSize ELSE DEFAULT_MAX_NODE_SIZE
        t == getOrCreateTree(db1, namespace,
               IF maxNodeSize # None THEN maxNodeSize ELSE Some(existingMaxNodeSize))
    IN [err |-> t.err, db |-> t.db]

---------------------------------------------------------------------------
(* deleteTreeNodes, the scheduled mutation, and the enumeration of the     *)
(* namespaces.                                                             *)

\* a faulty variant of deleteTreeNodes: the node is deleted, its subtrees
\* are not handed to the scheduler
deleteTreeNodesAlone(db, node) ==
  IF node \notin DOMAIN db.nodes THEN [err |-> "TYPE_ERROR", db |-> db]
  ELSE [err |-> NoErr, db |-> dbDeleteNode(db, node)]

\* (await ctx.db.get(node))! : on a node that is gone, n.subtrees throws
deleteTreeNodes(db, node) ==
  IF node \notin DOMAIN db.nodes THEN [err |-> "TYPE_ERROR", db |-> db]
  ELSE [err |-> NoErr,
        db |-> dbDeleteNode(
                 [db EXCEPT !.sched = @ \cup Range(db.nodes[node].subtrees)], node)]

\* the cursor "endcursor"; every other cursor is the _id of a Tree document,
\* and those are the positive integers
ENDCURSOR == 0

\* query("btree").withIndex("by_id", gt(cursor)).take(limit)
TreesById(db, cursor, limit) ==
  LET after == {t \in db.trees : cursor = None \/ t.id > The(cursor)}
      rank(t) == Cardinality({u \in after : u.id < t.id})
      n == IF Cardinality(after) < limit THEN Cardinality(after)
           ELSE IF limit < 0 THEN 0 ELSE limit
  IN [j \in 1..n |-> CHOOSE t \in after : rank(t) = j - 1]

\* t.namespace ?? null: the page carries null for the undefined namespace
NamespaceOrNull(namespace) ==
  IF namespace = UNDEFINED_NS THEN NULL_NS ELSE namespace

paginateNamespacesHandler(db, limit, cursor) ==
  IF cursor = Some(ENDCURSOR)
  THEN [err |-> NoErr, page |-> <<>>, cursor |-> ENDCURSOR, isDone |-> TRUE]
  ELSE
    LET trees == TreesById(db, cursor, limit)
        isDone == Len(trees) < limit
    IN IF ~isDone /\ Len(trees) = 0
       THEN [err |-> "TYPE_ERROR", page |-> <<>>, cursor |-> ENDCURSOR,
             isDone |-> FALSE]
       ELSE [err |-> NoErr,
             page |-> [j \in 1..Len(trees) |-> NamespaceOrNull(trees[j].namespace)],
             cursor |-> IF isDone THEN ENDCURSOR ELSE Last(trees).id,
             isDone |-> isDone]

---------------------------------------------------------------------------
(* The client: SearchTree.                                                 *)

\* the default pageSize of paginateNamespaces and iterNamespaces
NAMESPACES_PAGE_SIZE == 100

\* item ?? undefined: what iterNamespaces yields for an entry of a page
YieldedNamespace(item) ==
  IF item = NULL_NS THEN UNDEFINED_NS ELSE item

\* _insertIfDoesNotExist(namespace, key, id)
insertIfDoesNotExist(db, namespace, key, value) ==
  replaceOrInsert(db, namespace, namespace, key, key, value)

---------------------------------------------------------------------------
(* State.                                                                  *)
(* db     : the committed store                                            *)
(* oracle : per namespace, the key -> value map the workload built, as a   *)
(*          set of items (updated by the mutations that returned)          *)
(* last   : the last mutation run and the error it threw                   *)
(* ops    : the number of unconstrained operations run so far              *)
(* walk   : one client's pagination walk: its arguments, the cursor it     *)
(*          propagates, the pages and the last result it received          *)
(* clearing : one client's clearAll: its options, the cursor and the rest  *)
(*          of the page of iterNamespaces, and the store it started from   *)

VARIABLES db, oracle, last, ops, walk, clearing
vars == <<db, oracle, last, ops, walk, clearing>>

AllNamespaces == Namespaces \cup AdminNamespaces

OracleKeys(o) == {it.k : it \in o}
OraclePut(o, k, v) == {it \in o : it.k # k} \cup {[k |-> k, v |-> v]}
OracleRemove(o, k) == {it \in o : it.k # k}

NoResult == [err |-> NoErr, page |-> <<>>, cursor |-> <<>>, isDone |-> FALSE]
NoWalk ==
  [active |-> FALSE, ns |-> "", order |-> "", limit |-> 0, k1 |-> None, k2 |-> None,
   cursor |-> None, inCursor |-> None, calls |-> 0, pages |-> <<>>, res |-> NoResult,
   modified |-> FALSE, stable |-> {}]
NoClearAll ==
  [phase |-> "idle", opts |-> None, cursor |-> None, page |-> <<>>,
   isDone |-> FALSE, before |-> EmptyDb]

\* the host commits the writes of a mutation that returned and discards
\* the writes of one that threw
Commit(r) == IF r.err = NoErr THEN r.db ELSE db

Init ==
  /\ db = EmptyDb
  /\ oracle = [ns \in AllNamespaces |-> {}]
  /\ last = [op |-> "none", err |-> NoErr]
  /\ ops = 0
  /\ walk = NoWalk
  /\ clearing = NoClearAll

\* a mutation named op ran with outcome r; o2 is the oracle after it when it
\* returned.  A running walk notes whether the store changed under it and
\* which keys have been present since it started.
Transaction(op, outcome, o2, cost) ==
  \E r \in {outcome} :
    /\ db' = Commit(r)
    /\ last' = [op |-> op, err |-> r.err]
    /\ oracle' = IF r.err = NoErr THEN o2 ELSE oracle
    /\ ops' = ops + cost
    /\ walk' = IF walk.active
               THEN [walk EXCEPT
                       !.modified = @ \/ Commit(r) # db,
                       !.stable = IF r.err = NoErr
                                  THEN @ \cap OracleKeys(o2[walk.ns]) ELSE @]
               ELSE walk

\* a mutation called on its own, outside clearAll
Mutation(op, outcome, o2, cost) ==
  /\ clearing.phase = "idle"
  /\ Transaction(op, outcome, o2, cost)
  /\ UNCHANGED clearing

\* the keys the bulk load may insert next: 1, 2, 3, ... or MaxKey, MaxKey-1, ...
LoadKeys(ns) ==
  {k \in Keys : \/ OracleKeys(oracle[ns]) = 1..(k - 1)
                \/ OracleKeys(oracle[ns]) = (k + 1)..MaxKey}

InitTree(ns, maxNodeSize) ==
  /\ ops = 0
  /\ ~walk.active
  /\ oracle[ns] = {}
  /\ Mutation("init", init(db, ns, maxNodeSize), oracle, 0)

LoadInsert(ns, k) ==
  /\ ops = 0
  /\ ~walk.active
  /\ k \in LoadKeys(ns)
  /\ Mutation("insert", insert(db, ns, k, LoadValue),
              [oracle EXCEPT ![ns] = OraclePut(@, k, LoadValue)], 0)

Insert(ns, k, v) ==
  Mutation("insert", insert(db, ns, k, v),
           [oracle EXCEPT ![ns] = OraclePut(@, k, v)], 1)

Delete(ns, k) ==
  Mutation("delete", delete_(db, ns, k),
           [oracle EXCEPT ![ns] = OracleRemove(@, k)], 1)

DeleteIfExists(ns, k) ==
  Mutation("deleteIfExists", deleteIfExists(db, ns, k),
           [oracle EXCEPT ![ns] = OracleRemove(@, k)], 1)

Replace(ns, newNs, currentKey, newKey, v) ==
  Mutation("replace", replace(db, ns, newNs, currentKey, newKey, v),
           [[oracle EXCEPT ![ns] = OracleRemove(@, currentKey)]
              EXCEPT ![newNs] = OraclePut(@, newKey, v)], 2)

ReplaceOrInsert(ns, newNs, currentKey, newKey, v) ==
  Mutation("replaceOrInsert", replaceOrInsert(db, ns, newNs, currentKey, newKey, v),
           [[oracle EXCEPT ![ns] = OracleRemove(@, currentKey)]
              EXCEPT ![newNs] = OraclePut(@, newKey, v)], 2)

\* a client starts a walk: the first call will carry no cursor
StartWalk(ns, order, limit, k1, k2) ==
  /\ ~walk.active
  /\ walk' = [NoWalk EXCEPT !.active = TRUE, !.ns = ns, !.order = order,
                !.limit = limit, !.k1 = k1, !.k2 = k2,
                !.stable = OracleKeys(oracle[ns])]
  /\ UNCHANGED <<db, oracle, last, ops, clearing>>

\* the next paginate query of the walk, with the cursor of the previous
\* result; after the result that ended the walk, one more call with cursor ""
Paginate ==
  /\ walk.active
  /\ walk.inCursor # Some(<<>>)
  /\ walk.res.err = NoErr
  /\ \E r \in {paginateHandler(db, walk.ns, walk.limit, walk.order,
                                walk.cursor, walk.k1, walk.k2)} :
       walk' = [walk EXCEPT !.res = r, !.inCursor = walk.cursor,
                   !.cursor = Some(r.cursor), !.calls = @ + 1,
                   !.pages = IF walk.res.isDone THEN @ ELSE Append(@, r.page)]
  /\ UNCHANGED <<db, oracle, last, ops, clearing>>

\* init and clear, called at any time
InitNamespace(ns, maxNodeSize) ==
  Mutation("init", init(db, ns, maxNodeSize), oracle, 1)

Clear(ns, maxNodeSize) ==
  Mutation("clear", clear(db, ns, maxNodeSize), [oracle EXCEPT ![ns] = {}], 1)

\* the scheduler runs the pending deleteTreeNodes(node); the work item is
\* spent whether the mutation returns or throws
RunDeleteTreeNodes(node) ==
  /\ node \in db.sched
  /\ \E r \in {deleteTreeNodes(db, node)} :
       /\ db' = [Commit(r) EXCEPT !.sched = @ \ {node}]
       /\ last' = [op |-> "deleteTreeNodes", err |-> r.err]
  /\ walk' = IF walk.active THEN [walk EXCEPT !.modified = TRUE] ELSE walk
  /\ UNCHANGED <<oracle, ops, clearing>>

\* clearAll(opts) starts: iterNamespaces has fetched nothing yet
ClearAllStart(opts) ==
  /\ clearing.phase = "idle"
  /\ clearing' = [NoClearAll EXCEPT !.phase = "iterating", !.opts = opts,
                                    !.before = db]
  /\ UNCHANGED <<db, oracle, last, ops, walk>>

\* iterNamespaces: the page is used up and was not the last, the next
\* paginateNamespaces query runs
ClearAllFetch ==
  /\ clearing.phase = "iterating"
  /\ clearing.page = <<>>
  /\ ~clearing.isDone
  /\ \E r \in {paginateNamespacesHandler(db, NAMESPACES_PAGE_SIZE, clearing.cursor)} :
       clearing' = IF r.err # NoErr THEN [clearing EXCEPT !.phase = "failed"]
                   ELSE [clearing EXCEPT !.page = r.page, !.cursor = Some(r.cursor),
                                         !.isDone = r.isDone]
  /\ UNCHANGED <<db, oracle, last, ops, walk>>

\* the loop body of clearAll: clear the namespace iterNamespaces yields
ClearAllClear ==
  /\ clearing.phase = "iterating"
  /\ clearing.page # <<>>
  /\ \E ns \in {YieldedNamespace(Head(clearing.page))} :
       Transaction("clear", clear(db, ns, clearing.opts),
                   [oracle EXCEPT ![ns] = {}], 0)
  /\ clearing' = IF last'.err # NoErr THEN [clearing EXCEPT !.phase = "failed"]
                 ELSE [clearing EXCEPT !.page = Tail(@)]

\* after the loop: clear the undefined namespace
ClearAllFinal ==
  /\ clearing.phase = "iterating"
  /\ clearing.page = <<>>
  /\ clearing.isDone
  /\ Transaction("clear", clear(db, UNDEFINED_NS, clearing.opts),
                 [oracle EXCEPT ![UNDEFINED_NS] = {}], 0)
  /\ clearing' = [clearing EXCEPT !.phase = IF last'.err # NoErr THEN "failed"
                                            ELSE "done"]

---------------------------------------------------------------------------
(* Spec: mutations.  init, a bulk load in ascending or descending key      *)
(* order, then up to MaxOps unconstrained mutations.                       *)

Next ==
  \/ \E ns \in Namespaces, f \in InitFanouts : InitTree(ns, Some(f))
  \/ \E ns \in Namespaces, k \in Keys : LoadInsert(ns, k)
  \/ \E ns \in Namespaces, k \in Keys, v \in Values :
       ops < MaxOps /\ Insert(ns, k, v)
  \/ \E ns \in Namespaces, k \in Keys :
       ops < MaxOps /\ Delete(ns, k)
  \/ \E ns \in Namespaces, k \in Keys :
       ops < MaxOps /\ DeleteIfExists(ns, k)
  \/ \E ns \in Namespaces, newNs \in Namespaces, k \in Keys, k2 \in Keys, v \in Values :
       ops + 2 <= MaxOps /\ Replace(ns, newNs, k, k2, v)
  \/ \E ns \in Namespaces, newNs \in Namespaces, k \in Keys, k2 \in Keys, v \in Values :
       ops + 2 <= MaxOps /\ ReplaceOrInsert(ns, newNs, k, k2, v)

Spec == Init /\ [][Next]_vars

---------------------------------------------------------------------------
(* SpecWalk: walks over a tree nobody modifies.  init, a bulk load, then   *)
(* one walk with any order, limit and bounds.                              *)

Limits == {1, 2, 5, 7}
Orders == {"asc", "desc"}
WalkBounds == {None} \cup {Some(k) : k \in {5, 9, 15}}

NextWalk ==
  \/ \E ns \in Namespaces, f \in InitFanouts : InitTree(ns, Some(f))
  \/ \E ns \in Namespaces, k \in Keys : LoadInsert(ns, k)
  \/ \E ns \in Namespaces, order \in Orders, limit \in Limits,
        k1 \in WalkBounds, k2 \in WalkBounds : StartWalk(ns, order, limit, k1, k2)
  \/ Paginate

SpecWalk == Init /\ [][NextWalk]_vars

---------------------------------------------------------------------------
(* SpecConc: a walk interleaved with committed inserts and deletes, over   *)
(* the keys 1..SmallKey.                                                   *)

SmallKeys == 1..SmallKey
ConcLimits == {1, 2}
ConcBounds == {None} \cup {Some(k) : k \in {2, 5}}

NextConc ==
  \/ \E ns \in Namespaces, f \in InitFanouts : InitTree(ns, Some(f))
  \/ \E ns \in Namespaces, k \in SmallKeys : LoadInsert(ns, k)
  \/ \E ns \in Namespaces, order \in Orders, limit \in ConcLimits,
        k1 \in ConcBounds, k2 \in ConcBounds : StartWalk(ns, order, limit, k1, k2)
  \/ Paginate
  \/ \E ns \in Namespaces, k \in SmallKeys :
       walk.active /\ ops < MaxOps /\ Insert(ns, k, LoadValue)
  \/ \E ns \in Namespaces, k \in SmallKeys :
       walk.active /\ ops < MaxOps /\ Delete(ns, k)

SpecConc == Init /\ [][NextConc]_vars

---------------------------------------------------------------------------
(* SpecAdmin: the life cycle of the trees of three namespaces.  init and a *)
(* bulk load as above, then up to MaxOps mutations over the undefined      *)
(* namespace, the namespace null and a third one, among them init and      *)
(* clear with any maxNodeSize; the scheduler runs deleteTreeNodes.         *)

\* maxNodeSize arguments handed to init and clear: omitted, valid, invalid
AdminFanouts == {None} \cup {Some(f) : f \in 2..7}

NextAdmin ==
  \/ \E ns \in Namespaces, f \in InitFanouts : InitTree(ns, Some(f))
  \/ \E ns \in Namespaces, k \in SmallKeys : LoadInsert(ns, k)
  \/ \E ns \in AdminNamespaces, f \in AdminFanouts :
       ops < MaxOps /\ InitNamespace(ns, f)
  \/ \E ns \in AdminNamespaces, f \in AdminFanouts :
       ops < MaxOps /\ Clear(ns, f)
  \/ \E ns \in AdminNamespaces, k \in AdminKeys, v \in Values :
       ops < MaxOps /\ Insert(ns, k, v)
  \/ \E ns \in AdminNamespaces, k \in AdminKeys :
       ops < MaxOps /\ Delete(ns, k)
  \/ \E ns \in AdminNamespaces, k \in AdminKeys :
       ops < MaxOps /\ DeleteIfExists(ns, k)
  \/ \E ns \in AdminNamespaces, newNs \in AdminNamespaces,
        k \in AdminKeys, k2 \in AdminKeys :
       ops + 2 <= MaxOps /\ Replace(ns, newNs, k, k2, LoadValue)
  \/ \E ns \in AdminNamespaces, newNs \in AdminNamespaces,
        k \in AdminKeys, k2 \in AdminKeys, v \in Values :
       ops + 2 <= MaxOps /\ ReplaceOrInsert(ns, newNs, k, k2, v)
  \/ \E node \in db.sched : RunDeleteTreeNodes(node)

SpecAdmin == Init /\ [][NextAdmin]_vars

---------------------------------------------------------------------------
(* SpecClearAll: trees in the three namespaces, created by init or by a    *)
(* first insert, then one clearAll that nothing interleaves with.          *)

ClearAllFanouts == {4, 6}
ClearAllKeys == {1, 2}
ClearAllOpts == {None, Some(3), Some(6)}

NextClearAll ==
  \/ \E ns \in AdminNamespaces, f \in ClearAllFanouts : InitTree(ns, Some(f))
  \/ \E ns \in AdminNamespaces, k \in ClearAllKeys : LoadInsert(ns, k)
  \/ \E opts \in ClearAllOpts : ClearAllStart(opts)
  \/ ClearAllFetch
  \/ ClearAllClear
  \/ ClearAllFinal

SpecClearAll == Init /\ [][NextClearAll]_vars

---------------------------------------------------------------------------
(* SpecSched: the scheduler at work.  init and a bulk load over the keys   *)
(* 1..SmallKey, then clears and inserts, while the scheduler runs the      *)
(* pending deleteTreeNodes work items.  The host runs every function that  *)
(* was scheduled with runAfter(0, ...): as long as work items are pending, *)
(* one of them is run eventually.                                          *)

RunScheduled == \E node \in db.sched : RunDeleteTreeNodes(node)

NextSched ==
  \/ \E ns \in Namespaces, f \in InitFanouts : InitTree(ns, Some(f))
  \/ \E ns \in Namespaces, k \in SmallKeys : LoadInsert(ns, k)
  \/ \E ns \in Namespaces : ops < MaxOps /\ Clear(ns, None)
  \/ \E ns \in Namespaces, k \in SmallKeys :
       ops < MaxOps /\ Insert(ns, k, LoadValue)
  \/ RunScheduled

SpecSched == Init /\ [][NextSched]_vars /\ WF_vars(RunScheduled)

---------------------------------------------------------------------------
(* What the stored trees look like.  The walks below follow subtrees from  *)
(* a root for at most as many levels as the store has node documents.      *)

Fuel(d) == Cardinality(DOMAIN d.nodes)

\* the ids met from node downwards
RECURSIVE Reachable(_, _, _)
Reachable(d, node, fuel) ==
  IF fuel = 0 \/ node \notin DOMAIN d.nodes THEN {node}
  ELSE {node} \cup
       UNION {Reachable(d, c, fuel - 1) : c \in Range(d.nodes[node].subtrees)}

TreeNodes(t) == Reachable(db, t.root, Fuel(db))

\* the keys held from node downwards
KeysUnder(d, node, fuel) ==
  UNION {{it.k : it \in Range(d.nodes[id].items)} :
           id \in Reachable(d, node, fuel) \cap DOMAIN d.nodes}

\* the items from position j of node on, subtrees interleaved, left to right
RECURSIVE InOrderFrom(_, _, _, _)
InOrderFrom(d, node, fuel, j) ==
  LET n == d.nodes[node]
      sub == IF j < Len(n.subtrees) /\ fuel > 0
                  /\ At(n.subtrees, j) \in DOMAIN d.nodes
             THEN InOrderFrom(d, At(n.subtrees, j), fuel - 1, 0)
             ELSE <<>>
  IN IF j < Len(n.items)
     THEN sub \o <<At(n.items, j)>> \o InOrderFrom(d, node, fuel, j + 1)
     ELSE sub
InOrder(t) ==
  IF t.root \in DOMAIN db.nodes THEN InOrderFrom(db, t.root, Fuel(db), 0) ELSE <<>>

\* the depths, counted from node, at which a leaf is met
RECURSIVE LeafDepths(_, _, _)
LeafDepths(d, node, fuel) ==
  IF fuel = 0 \/ node \notin DOMAIN d.nodes \/ Len(d.nodes[node].subtrees) = 0
  THEN {0}
  ELSE {x + 1 : x \in UNION {LeafDepths(d, c, fuel - 1) :
                               c \in Range(d.nodes[node].subtrees)}}
Heights(t) == LeafDepths(db, t.root, Fuel(db))

\* the items of an oracle in ascending key order
Ascending(o) ==
  [j \in 1..Cardinality(o) |->
     CHOOSE it \in o : Cardinality({x \in o : x.k < it.k}) = j - 1]

TreesOf(ns) == getTree(db, ns)
LastReturned(op) == last.op = op /\ last.err = NoErr

---------------------------------------------------------------------------
(* Claims about the tree under mutations (Spec).                           *)

\* C1: in every committed store, every non-root node of a tree with fanout
\* M holds between M/2 and M items, the root holds at most M, and every
\* node has no subtree or exactly one more subtree than items.
C1_FanoutAndShape ==
  \A t \in db.trees : \A id \in TreeNodes(t) :
    /\ id \in DOMAIN db.nodes
    /\ LET n == db.nodes[id]
       IN /\ id # t.root => t.maxNodeSize \div 2 <= Len(n.items)
          /\ Len(n.items) <= t.maxNodeSize
          /\ Len(n.subtrees) = 0 \/ Len(n.subtrees) = Len(n.items) + 1

\* a delete returned on a tree of 17 keys and three levels and left 16 keys
\* on two levels: the merges went up to the root and the root collapsed
C1_Witness ==
  /\ LastReturned("delete") /\ ops = 1
  /\ \E t \in TreesOf("a") :
       /\ Cardinality(oracle["a"]) = 16 /\ Heights(t) = {1}
       /\ Len(db.nodes[t.root].items) = 4

\* C2: in every committed store the items of every node are strictly
\* ascending in key order.
C2_ItemsAscending ==
  \A t \in db.trees : \A id \in TreeNodes(t) \cap DOMAIN db.nodes :
    LET items == db.nodes[id].items
    IN \A j \in 1..(Len(items) - 1) : compareKeys(items[j].k, items[j + 1].k) = -1

\* after the load of 1..20 a key was deleted and an insert returned that
\* put it back, between the items of a node, with another value
C2_Witness ==
  /\ LastReturned("insert") /\ ops = 2
  /\ OracleKeys(oracle["a"]) = 1..20
  /\ \E it \in oracle["a"] : it.v = "y"

\* C3: in every committed store, for every internal node, the keys under
\* subtree i are strictly below item i and strictly above item i-1, and
\* no key is held by two node slots of a tree.
C3_Separation ==
  \A t \in db.trees :
    /\ \A id \in TreeNodes(t) \cap DOMAIN db.nodes :
         LET n == db.nodes[id]
         IN \A j \in 0..(Len(n.subtrees) - 1) :
              \A k \in KeysUnder(db, At(n.subtrees, j), Fuel(db)) :
                /\ j < Len(n.items) => compareKeys(k, At(n.items, j).k) = -1
                /\ (j > 0 /\ j - 1 < Len(n.items)) =>
                     compareKeys(k, At(n.items, j - 1).k) = 1
    /\ \E s \in {InOrder(t)} :
         \A i, j \in 1..Len(s) : i # j => s[i].k # s[j].k

\* a delete returned that removed a key held by an internal node: its
\* predecessor took the slot
C3_Witness ==
  /\ LastReturned("delete") /\ ops = 1
  /\ OracleKeys(oracle["a"]) = (1..17) \ {9}
  /\ \E t \in TreesOf("a") :
       8 \in {it.k : it \in Range(db.nodes[t.root].items)}

\* C4: in every committed store all leaves of a tree are at the same depth.
C4_LeavesSameDepth ==
  \A t \in db.trees : Cardinality(Heights(t)) = 1

\* a tree of three levels after a replace returned
C4_Witness ==
  /\ LastReturned("replace")
  /\ \E t \in TreesOf("a") : Heights(t) = {2}

\* the page sizes of the full walks compared with the oracle; 100 is the
\* default of SearchTree.iter
RefinePageSizes == {3, 100}

\* C5: in every committed store of an existing tree, get(k) is the oracle's
\* item for k, or null when the oracle has none, and the full ascending walk
\* yields exactly the oracle's items in ascending key order.
C5_RefinesOracle ==
  \A ns \in Namespaces : TreesOf(ns) # {} =>
    /\ \A k \in Keys :
         getHandler(db, ns, k) =
           [err |-> NoErr, item |-> {it \in oracle[ns] : it.k = k}]
    /\ \A pageSize \in RefinePageSizes :
         iter(db, ns, "asc", pageSize) = Ascending(oracle[ns])

\* a replaceOrInsert returned on a tree of three levels and gave a key the
\* value "y" where the load had stored "x"
C5_Witness ==
  /\ LastReturned("replaceOrInsert")
  /\ \E t \in TreesOf("a") : Heights(t) = {2}
  /\ \E it \in oracle["a"] : it.v = "y"
  /\ Cardinality(oracle["a"]) >= 17

\* C10: an insert step whose key the tree of the namespace already holds, in
\* whichever node, throws the duplicate-key error and leaves the committed
\* store as it was; the handler had written nothing when it threw.
C10_DuplicateInsert ==
  [][\A ns \in Namespaces, k \in Keys, v \in Values :
       ( /\ last'.op = "insert"
         /\ \E t \in TreesOf(ns) : k \in KeysUnder(db, t.root, Fuel(db))
         /\ Insert(ns, k, v) )
       => /\ last'.err = "DUPLICATE_KEY"
          /\ db' = db
          /\ insert(db, ns, k, v).db = db]_vars

\* an insert threw the duplicate-key error on a tree whose root is an
\* internal node with internal children
C10_Witness ==
  /\ last.op = "insert" /\ last.err = "DUPLICATE_KEY"
  /\ \E t \in TreesOf("a") : Heights(t) = {2}

---------------------------------------------------------------------------
(* Claims about walks (SpecWalk, SpecConc).                                *)

RECURSIVE Concat(_)
Concat(pages) ==
  IF pages = <<>> THEN <<>> ELSE Head(pages) \o Concat(Tail(pages))

\* the items a finished walk must have returned, in its order
Ordered(o, order) == IF order = "asc" THEN Ascending(o) ELSE Reverse(Ascending(o))
WalkDone == walk.active /\ walk.res.err = NoErr /\ walk.res.isDone
Unbounded == walk.k1 = None /\ walk.k2 = None

\* k1 <= k <= k2, and k1 < k < k2; a bound left out does not constrain
InclusiveKey(k, k1, k2) ==
  (k1 = None \/ The(k1) <= k) /\ (k2 = None \/ k <= The(k2))
ExclusiveKey(k, k1, k2) ==
  (k1 = None \/ The(k1) < k) /\ (k2 = None \/ k < The(k2))
Inclusive(o, k1, k2) == {it \in o : InclusiveKey(it.k, k1, k2)}
Exclusive(o, k1, k2) == {it \in o : ExclusiveKey(it.k, k1, k2)}
\* the keys the walk has returned so far
Returned == {it.k : it \in Range(Concat(walk.pages))}

\* C6: when a walk without bounds over an unmodified tree is done, its
\* pages, concatenated, are all items of the tree in the order asked for.
C6_RoundTrip ==
  (WalkDone /\ Unbounded /\ ~walk.modified) =>
     Concat(walk.pages) = Ordered(oracle[walk.ns], walk.order)

\* keys 1..20, asc, limit 5: [1..5], [6..10], [11..15], then [16..20] and done
C6_Witness ==
  /\ WalkDone /\ Unbounded /\ walk.order = "asc" /\ walk.limit = 5
  /\ OracleKeys(oracle[walk.ns]) = 1..20
  /\ walk.calls = 4
  /\ [j \in 1..4 |-> [i \in 1..5 |-> walk.pages[j][i].k]]
       = [j \in 1..4 |-> [i \in 1..5 |-> 5 * (j - 1) + i]]

\* C7: when a walk with bounds over an unmodified tree is done, its pages,
\* concatenated, are the items with k1 <= k <= k2 in the order asked for.
C7_BoundsInclusive ==
  (WalkDone /\ ~walk.modified) =>
     Concat(walk.pages) =
       Ordered(Inclusive(oracle[walk.ns], walk.k1, walk.k2), walk.order)

\* what the engine returns instead: the items with k1 < k < k2
BoundsExclusive ==
  (WalkDone /\ ~walk.modified) =>
     Concat(walk.pages) =
       Ordered(Exclusive(oracle[walk.ns], walk.k1, walk.k2), walk.order)

\* the keys returned so far are strictly monotonic in the order of the walk
PagesMonotonic ==
  \E s \in {Concat(walk.pages)} :
    \A j \in 1..(Len(s) - 1) :
      compareKeys(s[j].k, s[j + 1].k) = (IF walk.order = "asc" THEN -1 ELSE 1)

\* C8: under interleaved committed inserts and deletes, the keys a walk
\* returns are strictly monotonic in its order, and when it is done every key
\* with k1 <= k <= k2 that was in the tree during the whole walk was returned.
C8_CursorsSurvive ==
  (walk.active /\ walk.res.err = NoErr) =>
    /\ PagesMonotonic
    /\ walk.res.isDone =>
         \A k \in walk.stable :
           InclusiveKey(k, walk.k1, walk.k2) => k \in Returned

\* the same with the range the engine implements, k1 < k < k2
CursorsSurviveExclusive ==
  (walk.active /\ walk.res.err = NoErr) =>
    /\ PagesMonotonic
    /\ walk.res.isDone =>
         \A k \in walk.stable :
           ExclusiveKey(k, walk.k1, walk.k2) => k \in Returned

\* C9: every result of paginate on an existing tree with limit >= 1 has at
\* most limit items; isDone is false exactly when the cursor is not "";
\* a result that is not done has exactly limit items and a cursor that
\* decodes to the key of its last item; a call with cursor "" returns the
\* empty page, cursor "" and isDone true.
C9_PageProtocol ==
  (walk.active /\ walk.calls > 0) =>
    \E r \in {walk.res} :
      /\ r.err = NoErr
      /\ Len(r.page) <= walk.limit
      /\ r.isDone = FALSE <=> r.cursor # <<>>
      /\ ~r.isDone => /\ Len(r.page) = walk.limit
                      /\ decodeCursor(r.cursor) = Last(r.page).k
      /\ walk.inCursor = Some(<<>>) => r = EndOfWalk

\* a descending walk with limit 7 over 20 keys: two pages of 7 items that
\* were not done, a last page of 6, then a call with cursor "" that returned
\* the empty page
C9_Witness ==
  /\ walk.active /\ walk.order = "desc" /\ walk.limit = 7 /\ Unbounded
  /\ walk.calls = 4 /\ walk.inCursor = Some(<<>>) /\ walk.res = EndOfWalk
  /\ [j \in 1..3 |-> Len(walk.pages[j])] = <<7, 7, 6>>

---------------------------------------------------------------------------
(* Claims about the error contracts of the mutations (Spec).               *)

\* the keys stored in the tree of a namespace; none when it has no Tree
KeysOf(d, ns) ==
  UNION {KeysUnder(d, t.root, Fuel(d)) : t \in getTree(d, ns)}
\* a root that is a leaf without items
EmptyLeafRoot(d, t) ==
  /\ t.root \in DOMAIN d.nodes
  /\ d.nodes[t.root] = [items |-> <<>>, subtrees |-> <<>>]

\* C11: in every committed store and for every namespace (with a populated
\* tree, with a tree whose root is an empty leaf, or without a Tree
\* document), delete of a key the namespace does not hold throws
\* DELETE_MISSING_KEY and the store committed after it is the store before.
C11_DeleteMissing ==
  \A ns \in AllNamespaces :
    \E present \in {KeysOf(db, ns)} :
      \A k \in Keys \ present :
        \E r \in {delete_(db, ns, k)} :
          r.err = "DELETE_MISSING_KEY" /\ Commit(r) = db

\* a delete of a missing key has just failed on a tree whose root is an
\* empty leaf, while another namespace has no Tree document
C11_Witness ==
  /\ last = [op |-> "delete", err |-> "DELETE_MISSING_KEY"]
  /\ \E t \in TreesOf("a") : EmptyLeafRoot(db, t)
  /\ TreesOf(UNDEFINED_NS) = {}

---------------------------------------------------------------------------
(* Claims about the mutations and the life cycle of trees (SpecAdmin).     *)

\* what get answers for a key in store d
Get(d, ns, k) == getHandler(d, ns, k).item

\* C12: in every committed store, replace(currentKey, newKey, value) within
\* a namespace either returns, and then currentKey is gone (unless it is
\* newKey), get(newKey) is value and no other key came or went; or
\* currentKey is absent and it throws DELETE_MISSING_KEY; or newKey is
\* another key already present and it throws the duplicate-key error; and
\* after a throw the committed store is the store before.
C12_ReplaceAtomic ==
  \A ns \in AdminNamespaces :
    \E present \in {KeysOf(db, ns)} :
      \A currentKey \in SmallKeys, newKey \in SmallKeys, v \in Values :
        \E r \in {replace(db, ns, ns, currentKey, newKey, v)} :
          IF currentKey \notin present
          THEN r.err = "DELETE_MISSING_KEY" /\ Commit(r) = db
          ELSE IF newKey # currentKey /\ newKey \in present
          THEN r.err = "DUPLICATE_KEY" /\ Commit(r) = db
          ELSE /\ r.err = NoErr
               /\ KeysOf(r.db, ns) = (present \ {currentKey}) \cup {newKey}
               /\ Get(r.db, ns, newKey) = Some([k |-> newKey, v |-> v])
               /\ currentKey # newKey => Get(r.db, ns, currentKey) = None

\* a replace whose delete phase succeeded and whose insert phase threw has
\* just been rolled back on a two-level tree: every key is still there
C12_Witness ==
  /\ last = [op |-> "replace", err |-> "DUPLICATE_KEY"]
  /\ KeysOf(db, "a") = SmallKeys
  /\ \E t \in TreesOf("a") : Heights(t) = {1}

\* the items stored in the tree of a namespace; none when it has no Tree
ItemsOf(d, ns) ==
  UNION {Range(d.nodes[id].items) :
           id \in UNION {Reachable(d, t.root, Fuel(d)) \cap DOMAIN d.nodes :
                           t \in getTree(d, ns)}}
\* the node of the tree of a namespace that stores key k is an internal node
InInternalNode(d, ns, k) ==
  \E t \in getTree(d, ns) :
    \E id \in Reachable(d, t.root, Fuel(d)) \cap DOMAIN d.nodes :
      /\ Len(d.nodes[id].subtrees) > 0
      /\ \E it \in Range(d.nodes[id].items) : it.k = k

\* C13: in every committed store and for every namespace (without Tree,
\* with an empty tree, with k absent or present under any value, in a leaf
\* or in an internal node), replaceOrInsert(k, k, v) returns, get(k) is
\* then (k, v), every other key still has its value and no key came or
\* went; and insertIfDoesNotExist(k, v) is that very call.
C13_ReplaceOrInsertSame ==
  \A ns \in AdminNamespaces :
    \E before \in {ItemsOf(db, ns)} :
      \A k \in SmallKeys, v \in Values :
        \E r \in {replaceOrInsert(db, ns, ns, k, k, v)} :
          /\ r.err = NoErr
          /\ Get(r.db, ns, k) = Some([k |-> k, v |-> v])
          /\ ItemsOf(r.db, ns) = OraclePut(before, k, v)
          /\ \A it \in before : it.k # k => Get(r.db, ns, it.k) = Some(it)
          /\ insertIfDoesNotExist(db, ns, k, v) = r

\* replaceOrInsert(3, 3, "y") has just returned on the tree loaded with
\* 1..5, whose root held 3 under the value "x": the root holds (3, "y") and
\* the other four keys kept their value
C13_Witness ==
  /\ LastReturned("replaceOrInsert")
  /\ InInternalNode(db, "a", 3)
  /\ ItemsOf(db, "a") =
       {[k |-> j, v |-> IF j = 3 THEN "y" ELSE LoadValue] : j \in 1..5}

\* store d with two more Tree documents for the namespace: .unique() in
\* getTree then throws, which is how deleteHandler is made to throw an error
\* other than DELETE_MISSING_KEY (no run of the mutations commits such a store)
TwoTreeDocuments(d, ns) ==
  [d EXCEPT !.trees = @ \cup
     {[id |-> d.nextTreeId + j, namespace |-> ns, root |-> 0,
       maxNodeSize |-> DEFAULT_MAX_NODE_SIZE] : j \in {0, 1}}]

\* C14: in every committed store and for every namespace, deleteIfExists(k)
\* returns when k is absent (also on an empty tree and without a Tree
\* document) and leaves the items of the namespace as they were; when k is
\* present it has the outcome and the store of delete(k), which returns with
\* k removed; and an error of deleteHandler other than DELETE_MISSING_KEY is
\* thrown on.
C14_DeleteIfExists ==
  \A ns \in AdminNamespaces :
    \E before \in {ItemsOf(db, ns)} :
      \A k \in SmallKeys :
        \E r \in {deleteIfExists(db, ns, k)} :
          /\ k \notin OracleKeys(before) =>
               r.err = NoErr /\ ItemsOf(r.db, ns) = before
          /\ k \in OracleKeys(before) =>
               /\ r = delete_(db, ns, k)
               /\ r.err = NoErr
               /\ ItemsOf(r.db, ns) = OracleRemove(before, k)
          /\ \E bad \in {TwoTreeDocuments(db, ns)} :
               \E rb \in {deleteIfExists(bad, ns, k)} :
                 rb.err = "NOT_UNIQUE" /\ rb = delete_(bad, ns, k)

\* the only mutation so far was a deleteIfExists on the undefined namespace,
\* which had no Tree document: it returned
C14_Witness ==
  /\ LastReturned("deleteIfExists")
  /\ ops = 1
  /\ oracle["a"] = {}
  /\ \E t \in TreesOf(UNDEFINED_NS) : EmptyLeafRoot(db, t)

\* the fanouts init and clear accept
ValidFanouts == {f \in 2..7 : f % 2 = 0 /\ f >= 4}
\* the first page of a walk over the whole namespace, in store d
FirstPage(d, ns, order, limit) == paginateHandler(d, ns, limit, order, None, None, None)

\* C15: in every committed store, clear(namespace, maxNodeSize) with a valid
\* or omitted maxNodeSize returns and leaves the namespace exactly one Tree
\* document; its root is an empty leaf with an id no node document had
\* before, get answers null for every key and paginate an empty page; its
\* fanout is maxNodeSize when given, else the fanout of the Tree that was
\* cleared, else 16.
C15_Clear ==
  \A ns \in AdminNamespaces, maxNodeSize \in {None} \cup {Some(f) : f \in ValidFanouts} :
    \E old \in {getTree(db, ns)} :
      \E r \in {clear(db, ns, maxNodeSize)} :
        /\ r.err = NoErr
        /\ Cardinality(getTree(r.db, ns)) = 1
        /\ \A t \in getTree(r.db, ns) :
             /\ EmptyLeafRoot(r.db, t)
             /\ t.root \notin DOMAIN db.nodes
             /\ \A o \in old : t.root \notin Reachable(db, o.root, Fuel(db))
             /\ t.maxNodeSize =
                  IF maxNodeSize # None THEN The(maxNodeSize)
                  ELSE IF old # {} THEN The(old).maxNodeSize
                  ELSE DEFAULT_MAX_NODE_SIZE
        /\ \A k \in SmallKeys : getHandler(r.db, ns, k) = [err |-> NoErr, item |-> None]
        /\ \A order \in Orders :
             \E p \in {FirstPage(r.db, ns, order, SmallKey)} :
               p.err = NoErr /\ p.page = <<>>

\* clear has just returned on the namespace whose tree had two levels and
\* fanout 4: the new Tree has an empty leaf root and fanout 4, and the old
\* root, an internal node, waits for deleteTreeNodes
C15_Witness ==
  /\ LastReturned("clear")
  /\ \E t \in TreesOf("a") : EmptyLeafRoot(db, t) /\ t.maxNodeSize = 4
  /\ \E node \in db.sched :
       node \in DOMAIN db.nodes /\ Len(db.nodes[node].subtrees) > 0

\* C17: in every committed store, init(namespace, maxNodeSize) with a valid
\* or omitted maxNodeSize throws the already-initialized error on a namespace
\* that has a Tree document and leaves the store, that Tree with it, as it
\* was; on a namespace without one it returns, having added exactly one Tree
\* document, whose root is a new empty leaf and whose fanout is maxNodeSize
\* when given and 16 otherwise.
C17_Init ==
  \A ns \in AdminNamespaces, maxNodeSize \in {None} \cup {Some(f) : f \in ValidFanouts} :
    \E r \in {init(db, ns, maxNodeSize)} :
      IF getTree(db, ns) # {}
      THEN r.err = "ALREADY_INITIALIZED" /\ Commit(r) = db
      ELSE /\ r.err = NoErr
           /\ Cardinality(getTree(r.db, ns)) = 1
           /\ r.db.trees \ getTree(r.db, ns) = db.trees
           /\ \A t \in getTree(r.db, ns) :
                /\ EmptyLeafRoot(r.db, t)
                /\ t.root \notin DOMAIN db.nodes
                /\ t.maxNodeSize = IF maxNodeSize # None THEN The(maxNodeSize)
                                   ELSE DEFAULT_MAX_NODE_SIZE

\* init has just thrown on the namespace whose tree holds the six loaded keys
C17_Witness ==
  /\ last = [op |-> "init", err |-> "ALREADY_INITIALIZED"]
  /\ KeysOf(db, "a") = SmallKeys
  /\ \A ns \in AdminNamespaces \ {"a"} : TreesOf(ns) = {}


\* the fanouts MIN_NODE_SIZE rejects
InvalidFanouts == {f \in 0..7 : f % 2 # 0 \/ f < 4}

CreatedFanout(r, ns) == {t.maxNodeSize : t \in getTree(r.db, ns)}

\* C19: in every committed store, getOrCreateTree(namespace) with
\* maxNodeSize omitted, on a namespace without a Tree document, returns and
\* has created the Tree with the fanout of the undefined namespace's Tree
\* when there is one and with fanout 16 when there is none.
C19_OmittedFanout ==
  \A ns \in AdminNamespaces :
    getTree(db, ns) = {} =>
      \E r \in {getOrCreateTree(db, ns, None)} :
        /\ r.err = NoErr
        /\ CreatedFanout(r, ns) =
             IF getTree(db, UNDEFINED_NS) # {}
             THEN {t.maxNodeSize : t \in getTree(db, UNDEFINED_NS)}
             ELSE {DEFAULT_MAX_NODE_SIZE}

\* the half of it that the undefined namespace's Tree serves
OmittedFanoutInherited ==
  \A ns \in AdminNamespaces :
    getTree(db, ns) = {} /\ getTree(db, UNDEFINED_NS) # {} =>
      \E r \in {getOrCreateTree(db, ns, None)} :
        /\ r.err = NoErr
        /\ CreatedFanout(r, ns) = {t.maxNodeSize : t \in getTree(db, UNDEFINED_NS)}

\* without a Tree for the undefined namespace the call throws
OmittedFanoutThrows ==
  \A ns \in AdminNamespaces :
    getTree(db, ns) = {} /\ getTree(db, UNDEFINED_NS) = {} =>
      getOrCreateTree(db, ns, None).err = "NOT_INITIALIZED"


\* the Tree of the namespace was created with the default fanout, and its
\* root is a leaf holding item and nothing else
CreatedByFirstWrite(r, ns, item) ==
  /\ r.err = NoErr
  /\ Cardinality(getTree(r.db, ns)) = 1
  /\ \A t \in getTree(r.db, ns) :
       /\ t.maxNodeSize = DEFAULT_MAX_NODE_SIZE
       /\ t.root \in DOMAIN r.db.nodes
       /\ r.db.nodes[t.root] = [items |-> <<item>>, subtrees |-> <<>>]

\* C20: in every committed store, whatever the fanouts of the Trees of the
\* other namespaces, a write into a namespace without a Tree document
\* (insert, replace from a namespace that holds currentKey, replaceOrInsert
\* from any namespace) returns with the Tree of the namespace created at
\* fanout 16, its root a leaf that holds the written item only; and the
\* Tree getOrCreateTree makes for the write has an empty leaf as root.
C20_FirstWrite ==
  \A ns \in AdminNamespaces :
    getTree(db, ns) = {} =>
      /\ \E c \in {getOrCreateTree(db, ns, Some(DEFAULT_MAX_NODE_SIZE))} :
           c.err = NoErr /\ \A t \in c.tree : EmptyLeafRoot(c.db, t)
      /\ \A k \in AdminKeys, v \in Values :
           /\ CreatedByFirstWrite(insert(db, ns, k, v), ns, [k |-> k, v |-> v])
           /\ \A from \in AdminNamespaces, currentKey \in AdminKeys :
                /\ CreatedByFirstWrite(
                     replaceOrInsert(db, from, ns, currentKey, k, v),
                     ns, [k |-> k, v |-> v])
                /\ currentKey \in KeysOf(db, from) =>
                     CreatedByFirstWrite(replace(db, from, ns, currentKey, k, v),
                                         ns, [k |-> k, v |-> v])

\* replace has just moved a key from the fanout-4 tree into the namespace
\* null, which had no Tree: its Tree has fanout 16 and a one-item leaf root
C20_Witness ==
  /\ LastReturned("replace")
  /\ \E t \in TreesOf("a") : t.maxNodeSize = 4
  /\ \E t \in TreesOf(NULL_NS) :
       /\ t.maxNodeSize = DEFAULT_MAX_NODE_SIZE
       /\ Len(db.nodes[t.root].items) = 1
       /\ Len(db.nodes[t.root].subtrees) = 0

---------------------------------------------------------------------------
(* Claims about clearAll (SpecClearAll).                                   *)

\* clearAll has returned and was called without maxNodeSize
ClearAllDone == clearing.phase = "done" /\ clearing.opts = None
\* the namespace has a Tree whose root is an empty leaf
HasEmptyTree(ns) ==
  TreesOf(ns) # {} /\ \A t \in TreesOf(ns) : EmptyLeafRoot(db, t)
\* the undefined namespace has a Tree, with the fanout it had before if it had one
UndefinedTreeKept ==
  /\ TreesOf(UNDEFINED_NS) # {}
  /\ \A t0 \in getTree(clearing.before, UNDEFINED_NS), t \in TreesOf(UNDEFINED_NS) :
       t.maxNodeSize = t0.maxNodeSize

\* C16: when clearAll, called without maxNodeSize and with no other writer,
\* has returned, every namespace that had a Tree document when it started
\* (the namespace null and the undefined namespace among them) has an empty
\* tree, the undefined namespace has a Tree, and that Tree's fanout is the
\* one the undefined namespace had before.
C16_ClearAll ==
  ClearAllDone =>
    /\ \A ns \in AdminNamespaces :
         getTree(clearing.before, ns) # {} => HasEmptyTree(ns)
    /\ UndefinedTreeKept

\* the same for every namespace but null
ClearAllExceptNull ==
  ClearAllDone =>
    /\ \A ns \in AdminNamespaces \ {NULL_NS} :
         getTree(clearing.before, ns) # {} => HasEmptyTree(ns)
    /\ UndefinedTreeKept

\* a Tree of the namespace null is the Tree it was before clearAll
NullTreeUntouched ==
  ClearAllDone => getTree(db, NULL_NS) = getTree(clearing.before, NULL_NS)

---------------------------------------------------------------------------
(* Claims about the two tables (SpecAdmin, SpecSched).                     *)

\* the namespace values of the Tree documents of the store
StoredNamespaces == {t.namespace : t \in db.trees}

\* C21: in every committed store, each namespace value, the undefined
\* namespace being one of them, has at most one Tree document.
C21_OneTreePerNamespace ==
  /\ \A ns \in AdminNamespaces : Cardinality(getTree(db, ns)) <= 1
  /\ Cardinality(db.trees) = Cardinality(StoredNamespaces)

\* clear has just replaced a Tree document: three were created so far, two
\* namespaces have one each
C21_Witness ==
  /\ LastReturned("clear")
  /\ db.nextTreeId = 4
  /\ Cardinality(db.trees) = 2
  /\ Cardinality(StoredNamespaces) = 2


\* the ids met below node, once for every path that leads to them: the
\* subtrees from position j on, each followed by what lies below it
RECURSIVE Visits(_, _, _, _)
Visits(d, node, fuel, j) ==
  IF node \notin DOMAIN d.nodes THEN <<>>
  ELSE IF j >= Len(d.nodes[node].subtrees) THEN <<>>
  ELSE <<At(d.nodes[node].subtrees, j)>>
         \o (IF fuel > 0 THEN Visits(d, At(d.nodes[node].subtrees, j), fuel - 1, 0)
             ELSE <<>>)
         \o Visits(d, node, fuel, j + 1)
\* the ends of the paths that start at the root of Tree t, the root first
PathsOf(d, t) == <<t.root>> \o Visits(d, t.root, Fuel(d), 0)
\* the nodes of cleared trees that the scheduler has yet to delete
PendingNodes(d) == UNION {Reachable(d, node, Fuel(d)) : node \in d.sched}

\* C22: in every committed store, every id on a path from a Tree root names
\* a node document; no node is the end of two such paths, be it within one
\* tree or from the roots of two Trees; and every node document is on such
\* a path or can be reached from a node that a pending deleteTreeNodes work
\* item names.
C22_NodeOwnership ==
  \E paths \in {[t \in db.trees |-> PathsOf(db, t)]} :
    /\ \A t \in db.trees :
         /\ Range(paths[t]) \subseteq DOMAIN db.nodes
         /\ Cardinality(Range(paths[t])) = Len(paths[t])
    /\ \A t1 \in db.trees, t2 \in db.trees :
         t1 # t2 => Range(paths[t1]) \cap Range(paths[t2]) = {}
    /\ DOMAIN db.nodes \subseteq
         UNION {Range(paths[t]) : t \in db.trees} \cup PendingNodes(db)

\* the two-level tree of "a" was cleared and the scheduler has deleted its
\* root: the new root is owned by the Tree, the two leaves of the old tree
\* are what the two pending work items name
C22_Witness ==
  /\ last = [op |-> "deleteTreeNodes", err |-> NoErr]
  /\ \E t \in TreesOf("a") : EmptyLeafRoot(db, t)
  /\ Cardinality(db.sched) = 2
  /\ db.sched \subseteq DOMAIN db.nodes
  /\ Cardinality(DOMAIN db.nodes) = 3


\* the nodes on a path from a Tree root
OwnedNodes(d) == UNION {Reachable(d, t.root, Fuel(d)) : t \in d.trees}

\* a run of the work item deleteTreeNodes(node) deletes that node and no
\* other, spends the work item and schedules one work item for each child
DeletesOneNode ==
  \A node \in db.sched :
    RunDeleteTreeNodes(node) =>
      /\ node \in DOMAIN db.nodes
      /\ last'.err = NoErr
      /\ DOMAIN db'.nodes = DOMAIN db.nodes \ {node}
      /\ \A id \in DOMAIN db'.nodes : db'.nodes[id] = db.nodes[id]
      /\ db'.sched = (db.sched \ {node}) \cup Range(db.nodes[node].subtrees)
      /\ Cardinality(db'.sched) =
           Cardinality(db.sched) - 1 + Len(db.nodes[node].subtrees)
      /\ db'.trees = db.trees

\* C23: every run of a deleteTreeNodes work item deletes exactly the node it
\* was given and schedules exactly one work item per child of that node;
\* and, the scheduler running pending work items, whenever work items are
\* pending (a tree was cleared) there comes a state in which none is pending
\* and every node of a cleared tree is deleted: the node documents left are
\* those of the Trees.
C23_DeletionCompletes ==
  /\ [][DeletesOneNode]_vars
  /\ (db.sched # {}) ~> (db.sched = {} /\ DOMAIN db.nodes = OwnedNodes(db))

\* the scheduler has deleted the last of the three nodes of the cleared
\* two-level tree: the only node document left is the new root, the fourth
\* node the store made
C23_Witness ==
  /\ last = [op |-> "deleteTreeNodes", err |-> NoErr]
  /\ db.sched = {}
  /\ DOMAIN db.nodes = {4}
  /\ \E t \in TreesOf("a") : t.root = 4 /\ EmptyLeafRoot(db, t)


\* C24: when a deleteTreeNodes work item has run and deleted its node,
\* running deleteTreeNodes for the same node once more returns without
\* error and leaves the store as it is, no node deleted.
C24_DeleteTreeNodesIdempotent ==
  [][\A node \in db.sched :
       RunDeleteTreeNodes(node) /\ last'.err = NoErr =>
         \E again \in {deleteTreeNodes(db', node)} :
           again.err = NoErr /\ again.db = db']_vars

\* the second run throws, and the host discards whatever it wrote
DeleteTreeNodesAgainThrows ==
  [][\A node \in db.sched :
       RunDeleteTreeNodes(node) /\ last'.err = NoErr =>
         \E again \in {deleteTreeNodes(db', node)} :
           again.err = "TYPE_ERROR" /\ again.db = db']_vars


---------------------------------------------------------------------------
(* Claims about the enumeration of the namespaces (SpecClearAll).          *)

\* the results of the paginateNamespaces calls of a walk over store d that
\* hands each returned cursor to the next call, up to the result that is
\* done, at most fuel + 1 calls
RECURSIVE namespaceCalls(_, _, _, _)
namespaceCalls(d, limit, cursor, fuel) ==
  Bind(paginateNamespacesHandler(d, limit, cursor), LAMBDA r :
    IF r.err # NoErr \/ r.isDone \/ fuel = 0 THEN <<r>>
    ELSE <<r>> \o namespaceCalls(d, limit, Some(r.cursor), fuel - 1))

\* the Tree documents in ascending id order
TreesInIdOrder(d) ==
  [j \in 1..Cardinality(d.trees) |->
     CHOOSE t \in d.trees : Cardinality({u \in d.trees : u.id < t.id}) = j - 1]

NamespaceLimits == {1, 2, 3, NAMESPACES_PAGE_SIZE}

\* the cursors and the end of the walk are as the protocol says: every call
\* returns, a call that is not done returns a full page and the id of the
\* last Tree of that page, the last call is done and returns "endcursor",
\* and a call with "endcursor" returns an empty page and is done
EnumerationProtocol(d, limit, calls, sorted) ==
  /\ \A j \in 1..Len(calls) : calls[j].err = NoErr
  /\ \A j \in 1..(Len(calls) - 1) :
       /\ ~calls[j].isDone
       /\ Len(calls[j].page) = limit
       /\ calls[j].cursor = sorted[j * limit].id
  /\ Last(calls).isDone
  /\ Last(calls).cursor = ENDCURSOR
  /\ paginateNamespacesHandler(d, limit, Some(ENDCURSOR)) =
       [err |-> NoErr, page |-> <<>>, cursor |-> ENDCURSOR, isDone |-> TRUE]

EnumerationUpToNull ==
  \A limit \in NamespaceLimits :
    \E sorted \in {TreesInIdOrder(db)} :
      \E calls \in {namespaceCalls(db, limit, None, Cardinality(db.trees))} :
        /\ EnumerationProtocol(db, limit, calls, sorted)
        /\ Concat([j \in 1..Len(calls) |-> calls[j].page]) =
             [j \in 1..Len(sorted) |-> NamespaceOrNull(sorted[j].namespace)]

\* without a Tree for the undefined namespace the walk returns the stored
\* namespaces themselves
EnumerationWithoutUndefined ==
  getTree(db, UNDEFINED_NS) = {} =>
    \A limit \in NamespaceLimits :
      Concat([j \in 1..Len(namespaceCalls(db, limit, None, Cardinality(db.trees))) |->
                namespaceCalls(db, limit, None, Cardinality(db.trees))[j].page]) =
        [j \in 1..Cardinality(db.trees) |-> TreesInIdOrder(db)[j].namespace]


---------------------------------------------------------------------------
(* Claims about the reads (SpecAdmin, Spec).                               *)

\* get is a query: it returns an error or an item and writes nothing
GetOnEmptyTree ==
  \A ns \in AdminNamespaces, k \in AdminKeys :
    \A t \in getTree(db, ns) :
      EmptyLeafRoot(db, t) => getHandler(db, ns, k) = [err |-> NoErr, item |-> None]

\* C26: in every committed store, get(k) on a namespace with no Tree
\* document fails with the error NOT_INITIALIZED, and get(k) on a namespace
\* whose Tree has an empty leaf as root returns null without an error; get
\* being a query, no Tree or node document is created or modified.
C26_GetNotInitialized ==
  /\ GetOnEmptyTree
  /\ \A ns \in AdminNamespaces, k \in AdminKeys :
       getTree(db, ns) = {} => getHandler(db, ns, k).err = "NOT_INITIALIZED"

\* on a namespace with no Tree get fails, with the TypeError of tree.root
GetWithoutTreeThrows ==
  /\ GetOnEmptyTree
  /\ \A ns \in AdminNamespaces, k \in AdminKeys :
       getTree(db, ns) = {} =>
         getHandler(db, ns, k) = [err |-> "TYPE_ERROR", item |-> None]

\* a store with an empty tree next to a namespace that has no Tree
GetCasesReached ==
  /\ LastReturned("clear")
  /\ \E t \in TreesOf("a") : EmptyLeafRoot(db, t)
  /\ getTree(db, NULL_NS) = {}


\* the limits, cursors and bounds of the rejected paginate calls
BadLimits == {-1, 0}
BadLimitCursors == {None, Some(<<>>)} \cup {Some(encodeCursor(k)) : k \in AdminKeys}
BadLimitBounds == {None} \cup {Some(k) : k \in AdminKeys}

\* C27: in every committed store, paginate with a limit <= 0 fails with an
\* error for every namespace, order, cursor and pair of bounds, also when
\* the namespace has no Tree document and when the cursor is the empty string.
C27_LimitRejected ==
  \A ns \in AdminNamespaces, limit \in BadLimits, order \in Orders,
     cursor \in BadLimitCursors, k1 \in BadLimitBounds, k2 \in BadLimitBounds :
    paginateHandler(db, ns, limit, order, cursor, k1, k2).err # NoErr

\* the limit is checked in paginateInNode, which is reached only when the
\* namespace has a Tree: without one the call returns the empty last page
LimitRejectedUnderTree ==
  \A ns \in AdminNamespaces, limit \in BadLimits, order \in Orders,
     cursor \in BadLimitCursors, k1 \in BadLimitBounds, k2 \in BadLimitBounds :
    \E r \in {paginateHandler(db, ns, limit, order, cursor, k1, k2)} :
      IF getTree(db, ns) = {} THEN r = EndOfWalk
      ELSE r.err = "LIMIT_NOT_POSITIVE"


---------------------------------------------------------------------------
(* Strictly ascending inserts into an empty tree (SpecBoundary).           *)

BoundaryFanouts == {4, 6, 8, 10}
BoundaryKeys == 1..(2 * SmallKey)

\* insert of a key above every key of the tree, up to maxNodeSize + 1 keys
AscendingInsert(ns, k) ==
  /\ \E t \in getTree(db, ns) : Cardinality(oracle[ns]) <= t.maxNodeSize
  /\ \A it \in oracle[ns] : it.k < k
  /\ Mutation("insert", insert(db, ns, k, LoadValue),
              [oracle EXCEPT ![ns] = OraclePut(@, k, LoadValue)], 0)

NextBoundary ==
  \/ \E ns \in Namespaces, f \in BoundaryFanouts : InitTree(ns, Some(f))
  \/ \E ns \in Namespaces, k \in BoundaryKeys : AscendingInsert(ns, k)

SpecBoundary == Init /\ [][NextBoundary]_vars

\* C28: whenever a tree of fanout M, MIN = M/2, that was empty has taken
\* M + 1 inserts of strictly ascending keys, it has height 1: its root has
\* exactly one item, the (MIN+1)-th inserted key, and exactly two children,
\* both leaves, the left with the first MIN keys and the right with the
\* last MIN keys.
C28_AscendingBoundary ==
  \A ns \in Namespaces : \A t \in TreesOf(ns) :
    Cardinality(oracle[ns]) = t.maxNodeSize + 1 =>
      \E min \in {t.maxNodeSize \div 2} : \E asc \in {Ascending(oracle[ns])} :
        \E root \in {db.nodes[t.root]} :
          /\ Heights(t) = {1}
          /\ root.items = <<asc[min + 1]>>
          /\ Len(root.subtrees) = 2
          /\ db.nodes[root.subtrees[1]] =
               [items |-> SubSeq(asc, 1, min), subtrees |-> <<>>]
          /\ db.nodes[root.subtrees[2]] =
               [items |-> SubSeq(asc, min + 2, t.maxNodeSize + 1), subtrees |-> <<>>]
          /\ Cardinality(DOMAIN db.nodes) = 3

\* the ninth ascending key, with gaps between the keys, went into a tree of
\* fanout 8
C28_Witness ==
  /\ LastReturned("insert")
  /\ \E t \in TreesOf("a") : t.maxNodeSize = 8
  /\ Cardinality(oracle["a"]) = 9
  /\ {1, 2} \cap OracleKeys(oracle["a"]) = {}
  /\ 2 * SmallKey \in OracleKeys(oracle["a"])


---------------------------------------------------------------------------
(* The scripted inserts (SpecScript).                                      *)

Script == <<10, 20, 5, 6, 12, 30, 7, 17, 8, 4, 3, 9>>
ScriptFanouts == {4, 6}
ScriptPageSizes == {1, 5, 100}

\* insert of the next key of the script, with some value
ScriptInsert(ns, v) ==
  /\ Cardinality(oracle[ns]) < Len(Script)
  /\ \E k \in {Script[Cardinality(oracle[ns]) + 1]} :
       Mutation("insert", insert(db, ns, k, v),
                [oracle EXCEPT ![ns] = OraclePut(@, k, v)], 0)

NextScript ==
  \/ \E ns \in Namespaces, f \in ScriptFanouts : InitTree(ns, Some(f))
  \/ \E ns \in Namespaces, v \in Values : ScriptInsert(ns, v)

SpecScript == Init /\ [][NextScript]_vars

ScriptSorted == <<3, 4, 5, 6, 7, 8, 9, 10, 12, 17, 20, 30>>
KeysOfItems(items) == [j \in 1..Len(items) |-> items[j].k]
\* the tree of fanout 4 that took the whole script
ScriptDone(t) == t.maxNodeSize = 4 /\ Cardinality(oracle[t.namespace]) = Len(Script)

\* the walk of the scripted tree and its validation
ScriptWalkAndValidate(t) ==
  /\ \A pageSize \in ScriptPageSizes :
       KeysOfItems(iter(db, t.namespace, "asc", pageSize)) = ScriptSorted
  /\ validateTree(db, t.namespace).err = NoErr

\* C29: after the inserts of 10,20,5,6,12,30,7,17,8,4,3,9 in that order into
\* an empty tree of fanout 4, the full ascending walk is exactly
\* 3,4,5,6,7,8,9,10,12,17,20,30, validate passes, and the height of the tree
\* is 2, a root directly above leaves having height 1.
C29_ScriptHeightTwo ==
  \A t \in TreesOf("a") :
    ScriptDone(t) =>
      /\ ScriptWalkAndValidate(t)
      /\ validateNode(db, t.namespace, t.root, 0).height = 2
      /\ Heights(t) = {2}

\* C29, the height amended: the walk and the validation are as stated, and
\* the height is 1: the root stands directly above the leaves, so the tree
\* has two levels.
C29_ScriptHeightOne ==
  \A t \in TreesOf("a") :
    ScriptDone(t) =>
      /\ ScriptWalkAndValidate(t)
      /\ validateNode(db, t.namespace, t.root, 0).height = 1
      /\ Heights(t) = {1}

C29_Witness ==
  /\ LastReturned("insert")
  /\ \E t \in TreesOf("a") : ScriptDone(t) /\ Len(db.nodes[t.root].subtrees) > 0
  /\ KeysOf(db, "a") = Range(Script)


---------------------------------------------------------------------------
(* Claims about the rebalancing step of delete (Spec).                     *)

\* the rebalancing step that deleteFromNode(d, ns, node, key) reaches at an
\* internal node that holds key or has it below: the node n as read, the
\* index i of the child the delete went into, the store before the step
\* (after the recursive delete returned) and the store after it
RebalanceCall(d, ns, node, key) ==
  LET n0 == d.nodes[node]
      i == ScanIndex(n0.items, key)
      found == FoundAt(n0.items, key, i)
  IN Bind(IF found
          THEN dbPatchItems(d, node,
                 Slice(n0.items, 0, i) \o <<findMax(d, At(n0.subtrees, i))>>
                   \o SliceFrom(n0.items, i + 1))
          ELSE d,
       LAMBDA d1 :
         Bind(deleteFromNode(d1, ns, At(n0.subtrees, i),
                IF found THEN findMax(d, At(n0.subtrees, i)).k ELSE key),
           LAMBDA r :
             [err |-> r.err, node |-> node, n |-> d1.nodes[node], i |-> i,
              before |-> r.db,
              after |-> rebalance(r.db, ns, node, d1.nodes[node], i).db]))

\* the nodes other than those in ids are in both stores, unchanged
OthersUnchanged(c, ids) ==
  \A id \in DOMAIN c.before.nodes \ ids :
    id \in DOMAIN c.after.nodes /\ c.after.nodes[id] = c.before.nodes[id]

\* one item went from the left sibling through items[i-1] into child i
RotatedRight(c, min) ==
  LET child == At(c.n.subtrees, c.i)
      leftId == At(c.n.subtrees, c.i - 1)
      leftSibling == c.before.nodes[leftId]
  IN /\ DOMAIN c.after.nodes = DOMAIN c.before.nodes
     /\ c.after.nodes[child].items =
          <<At(c.n.items, c.i - 1)>> \o c.before.nodes[child].items
     /\ Len(c.after.nodes[child].items) = min
     /\ c.after.nodes[leftId].items =
          Slice(leftSibling.items, 0, Len(leftSibling.items) - 1)
     /\ c.after.nodes[c.node] =
          [c.n EXCEPT !.items[c.i] = Last(leftSibling.items)]
     /\ OthersUnchanged(c, {child, leftId, c.node})

\* one item went from the right sibling through items[i] into child i
RotatedLeft(c, min) ==
  LET child == At(c.n.subtrees, c.i)
      rightId == At(c.n.subtrees, c.i + 1)
      rightSibling == c.before.nodes[rightId]
  IN /\ DOMAIN c.after.nodes = DOMAIN c.before.nodes
     /\ c.after.nodes[child].items =
          c.before.nodes[child].items \o <<At(c.n.items, c.i)>>
     /\ Len(c.after.nodes[child].items) = min
     /\ c.after.nodes[rightId].items = SliceFrom(rightSibling.items, 1)
     /\ c.after.nodes[c.node] =
          [c.n EXCEPT !.items[c.i + 1] = At(rightSibling.items, 0)]
     /\ OthersUnchanged(c, {child, rightId, c.node})

\* the children leftIndex and leftIndex + 1 became one node, the left one
Merged(c, leftIndex, min, max) ==
  LET leftId == At(c.n.subtrees, leftIndex)
      rightId == At(c.n.subtrees, leftIndex + 1)
  IN /\ DOMAIN c.after.nodes = DOMAIN c.before.nodes \ {rightId}
     /\ c.after.nodes[leftId].items =
          c.before.nodes[leftId].items \o <<At(c.n.items, leftIndex)>>
            \o c.before.nodes[rightId].items
     /\ Len(c.after.nodes[leftId].items) = 2 * min
     /\ 2 * min = max
     /\ Len(c.after.nodes[c.node].items) = Len(c.n.items) - 1
     /\ Len(c.after.nodes[c.node].subtrees) = Len(c.n.subtrees) - 1
     /\ leftId \in Range(c.after.nodes[c.node].subtrees)
     /\ rightId \notin Range(c.after.nodes[c.node].subtrees)
     /\ OthersUnchanged(c, {leftId, rightId, c.node})

Deficient(c, min) == Len(c.before.nodes[At(c.n.subtrees, c.i)].items) < min
LeftCanLend(c, min) ==
  c.i > 0 /\ Len(c.before.nodes[At(c.n.subtrees, c.i - 1)].items) > min
RightCanLend(c, min) ==
  /\ c.i < Len(c.n.subtrees) - 1
  /\ Len(c.before.nodes[At(c.n.subtrees, c.i + 1)].items) > min

RuleFollowed(c, min, max) ==
  /\ c.err = NoErr
  /\ IF ~Deficient(c, min) THEN c.after = c.before
     ELSE IF LeftCanLend(c, min) THEN RotatedRight(c, min)
     ELSE IF RightCanLend(c, min) THEN RotatedLeft(c, min)
     ELSE IF c.i > 0 THEN Merged(c, c.i - 1, min, max)
     ELSE Merged(c, c.i, min, max)

\* the internal nodes of the tree of a namespace, each with a key it holds
\* or has below
RebalanceSites(ns) ==
  {<<node, key>> \in (DOMAIN db.nodes) \X Keys :
     \E t \in TreesOf(ns) :
       /\ node \in TreeNodes(t)
       /\ Len(db.nodes[node].subtrees) > 0
       /\ key \in KeysUnder(db, node, Fuel(db))}

\* C30: in every committed store, for every internal node and every key the
\* delete of which passes through that node, the rebalancing step applies the
\* first rule that fits when child i is left with fewer than MIN items:
\* (1) the left sibling has more than MIN items: one item is rotated right
\* through items[i-1], whatever the right sibling has; (2) else the right
\* sibling has more than MIN items: one item is rotated left through
\* items[i]; (3) else the child is merged with its left sibling when i > 0
\* and with its right sibling when i = 0.  A rotation deletes no node and
\* leaves the child with exactly MIN items; a merge deletes exactly the right
\* node of the pair, leaves the left one with 2*MIN = MAX items and takes one
\* item and one subtree pointer from the parent.
C30_RebalanceRuleOrder ==
  \A ns \in Namespaces : \A t \in TreesOf(ns) :
    \A site \in RebalanceSites(ns) :
      \E c \in {RebalanceCall(db, ns, site[1], site[2])} :
        RuleFollowed(c, t.maxNodeSize \div 2, t.maxNodeSize)

\* a delete returned, and in the store it left some delete makes a child
\* deficient whose two siblings both have more than MIN items
C30_Witness ==
  /\ LastReturned("delete")
  /\ \E t \in TreesOf("a") : \E site \in RebalanceSites("a") :
       \E c \in {RebalanceCall(db, "a", site[1], site[2])} :
         /\ Deficient(c, t.maxNodeSize \div 2)
         /\ LeftCanLend(c, t.maxNodeSize \div 2)
         /\ RightCanLend(c, t.maxNodeSize \div 2)

\* each of the other rules is met too, also above the leaves
RebalanceCasesReached ==
  \E t \in TreesOf("a") : \E min \in {t.maxNodeSize \div 2} :
    /\ \E site \in RebalanceSites("a") :
         \E c \in {RebalanceCall(db, "a", site[1], site[2])} :
           /\ Deficient(c, min) /\ ~LeftCanLend(c, min) /\ RightCanLend(c, min)
           /\ Len(c.before.nodes[At(c.n.subtrees, c.i)].subtrees) > 0
    /\ \E site \in RebalanceSites("a") :
         \E c \in {RebalanceCall(db, "a", site[1], site[2])} :
           /\ Deficient(c, min) /\ ~LeftCanLend(c, min) /\ ~RightCanLend(c, min)
           /\ c.i > 0
    /\ \E site \in RebalanceSites("a") :
         \E c \in {RebalanceCall(db, "a", site[1], site[2])} :
           /\ Deficient(c, min) /\ ~RightCanLend(c, min) /\ c.i = 0


---------------------------------------------------------------------------
(* Claims about the root and the height (Spec).                            *)

\* the depths of the leaves of the tree of namespace ns in store d
HeightsIn(d, ns) ==
  UNION {LeafDepths(d, t.root, Fuel(d)) : t \in getTree(d, ns)}
RootIn(d, ns) == {t.root : t \in getTree(d, ns)}

\* insertIntoNode at the root pushed an item up: the root itself split
RootSplits(d, ns, k) ==
  \E t \in getTree(d, ns) :
    \E r \in {insertIntoNode(d, ns, t.root, [k |-> k, v |-> LoadValue])} :
      r.err = NoErr /\ r.pushUp.has

\* deleteFromNode left the root internal with no item and one subtree
RootLeftEmpty(d, ns, k) ==
  \E t \in getTree(d, ns) :
    \E r \in {deleteFromNode(d, ns, t.root, k)} :
      /\ r.err = NoErr
      /\ Len(r.db.nodes[t.root].items) = 0
      /\ Len(r.db.nodes[t.root].subtrees) = 1

\* what an insert that returned did to the root and the height
InsertKeepsOrGrows(d, ns, k, after) ==
  \A t \in getTree(d, ns) : \E h \in HeightsIn(d, ns) :
    IF RootSplits(d, ns, k)
    THEN /\ RootIn(after, ns) \cap (DOMAIN d.nodes) = {}
         /\ \A root \in RootIn(after, ns) :
              /\ Len(after.nodes[root].items) = 1
              /\ Len(after.nodes[root].subtrees) = 2
              /\ after.nodes[root].subtrees[1] = t.root
         /\ HeightsIn(after, ns) = {h + 1}
    ELSE /\ RootIn(after, ns) = {t.root}
         /\ HeightsIn(after, ns) = {h}

\* what a delete that returned did to the root and the height
DeleteKeepsOrShrinks(d, ns, k, after) ==
  \A t \in getTree(d, ns) : \E h \in HeightsIn(d, ns) :
    /\ IF RootLeftEmpty(d, ns, k)
       THEN /\ RootIn(after, ns) \subseteq Range(d.nodes[t.root].subtrees)
            /\ RootIn(after, ns) # {t.root}
            /\ t.root \notin DOMAIN after.nodes
            /\ HeightsIn(after, ns) = {h - 1}
       ELSE /\ RootIn(after, ns) = {t.root}
            /\ HeightsIn(after, ns) = {h}
    /\ \A root \in RootIn(after, ns) :
         ~(Len(after.nodes[root].subtrees) > 0 /\ Len(after.nodes[root].items) = 0)

\* C31: in every committed store with a Tree for the namespace, an insert
\* that returns changes Tree.root only when the root itself split, and then
\* the new root has exactly one item and two subtrees and the height grows
\* by exactly 1; a delete that returns changes Tree.root only when the root
\* is left internal with no item and one subtree, and then that child is the
\* root, the old root node is deleted and the height shrinks by exactly 1;
\* every other insert or delete leaves Tree.root and the height as they
\* were; after a delete the root is never an internal node without items.
C31_RootAndHeight ==
  \A ns \in Namespaces :
    /\ Cardinality(getTree(db, ns)) = 1
    /\ Cardinality(HeightsIn(db, ns)) = 1
    =>
    \A k \in Keys :
      /\ \E r \in {insertHandler(db, ns, k, LoadValue)} :
           r.err = NoErr => InsertKeepsOrGrows(db, ns, k, r.db)
      /\ \E r \in {deleteHandler(db, ns, k)} :
           r.err = NoErr => DeleteKeepsOrShrinks(db, ns, k, r.db)

\* a delete returned, and the store it left has a tree of height 2 from
\* which some delete takes the root away
C31_Witness ==
  /\ LastReturned("delete")
  /\ HeightsIn(db, "a") = {2}
  /\ \E k \in Keys :
       RootLeftEmpty(db, "a", k) /\ deleteHandler(db, "a", k).err = NoErr

\* an insert returned, and the store it left has a tree of height 1 whose
\* root the next insert of some key splits
RootSplitReached ==
  /\ LastReturned("insert")
  /\ HeightsIn(db, "a") = {1}
  /\ \E k \in Keys :
       RootSplits(db, "a", k) /\ insertHandler(db, "a", k, LoadValue).err = NoErr


---------------------------------------------------------------------------
(* Claims about the range filter (SpecFilter).                             *)

\* a tree is loaded, then at most one key is deleted from it
NextFilter ==
  \/ \E ns \in Namespaces, f \in InitFanouts : InitTree(ns, Some(f))
  \/ \E ns \in Namespaces, k \in Keys : LoadInsert(ns, k)
  \/ \E ns \in Namespaces, k \in Keys : ops = 0 /\ Delete(ns, k)

SpecFilter == Init /\ [][NextFilter]_vars

FilterBounds == {None} \cup {Some(k) : k \in Keys}

\* the keys a contribution covers, in ascending order
ContributionKeys(d, c) ==
  IF c.type = "item" THEN <<c.item.k>>
  ELSE KeysOfItems(InOrderFrom(d, c.subtree, Fuel(d), 0))
ExpandedKeys(d, cs) == Concat([j \in 1..Len(cs) |-> ContributionKeys(d, cs[j])])

StrictlyAscending(s) == \A j \in 1..(Len(s) - 1) : s[j] < s[j + 1]
WithinBounds(k, k1, k2) ==
  /\ k1 = None \/ The(k1) <= k
  /\ k2 = None \/ k <= The(k2)
BoundsInOrder(k1, k2) == k1 = None \/ k2 = None \/ The(k1) <= The(k2)

\* C32: in every committed store, for every tree and every pair of bounds
\* k1 <= k2, each possibly absent, the contributions of
\* filterBetween(root, k1, k2), every subtree contribution expanded in order
\* to the keys it contains, form a strictly ascending sequence of keys, so
\* that no key is covered by two contributions, and every key of an item
\* contribution and of a subtree contribution lies in [k1, k2].
C32_FilterSound ==
  \A ns \in Namespaces : \A t \in TreesOf(ns) :
    \A k1 \in FilterBounds, k2 \in FilterBounds :
      BoundsInOrder(k1, k2) =>
        \E cs \in {filterBetween(db, t.root, k1, k2)} :
          \E keys \in {ExpandedKeys(db, cs)} :
            /\ StrictlyAscending(keys)
            /\ \A j \in 1..Len(keys) : WithinBounds(keys[j], k1, k2)
            /\ Range(keys) \subseteq KeysOf(db, ns)

\* a delete returned and left a tree of height 2 for which some pair of
\* bounds, with keys of the tree outside on both sides, is answered with
\* whole subtrees and with items
C32_Witness ==
  /\ LastReturned("delete")
  /\ HeightsIn(db, "a") = {2}
  /\ \E k1 \in FilterBounds \ {None}, k2 \in FilterBounds \ {None} :
       \E t \in TreesOf("a") : \E cs \in {filterBetween(db, t.root, k1, k2)} :
         /\ \E j \in 1..Len(cs) : cs[j].type = "subtree"
         /\ \E j \in 1..Len(cs) : cs[j].type = "item"
         /\ Len(ExpandedKeys(db, cs)) >= 5
         /\ \E k \in KeysOf(db, "a") : k < The(k1)
         /\ \E k \in KeysOf(db, "a") : k > The(k2)


---------------------------------------------------------------------------
(* Claims about the split of insert (Spec).                                *)

\* the nodes insertIntoNode(d, ns, node, [k, v]) visits
RECURSIVE InsertPath(_, _, _)
InsertPath(d, node, k) ==
  IF Len(d.nodes[node].subtrees) = 0 THEN {node}
  ELSE {node} \cup
       InsertPath(d, At(d.nodes[node].subtrees, ScanIndex(d.nodes[node].items, k)), k)

\* step 4 of insertIntoNode(d, ns, node, [k, v]) at a node of its path: the
\* store after the local write of steps 1 to 3 and the result of the step
SplitCall(d, ns, node, k) ==
  LET n == d.nodes[node]
      i == ScanIndex(n.items, k)
      item == [k |-> k, v |-> LoadValue]
  IN Bind(IF Len(n.subtrees) > 0
          THEN Bind(insertIntoNode(d, ns, At(n.subtrees, i), item), LAMBDA r :
                 IF r.pushUp.has
                 THEN dbPatchNode(r.db, node,
                        Slice(n.items, 0, i) \o <<r.pushUp.item>> \o SliceFrom(n.items, i),
                        Slice(n.subtrees, 0, i)
                          \o <<r.pushUp.leftSubtree, r.pushUp.rightSubtree>>
                          \o SliceFrom(n.subtrees, i + 1))
                 ELSE r.db)
          ELSE dbPatchItems(d, node,
                 Slice(n.items, 0, i) \o <<item>> \o SliceFrom(n.items, i)),
       LAMBDA written :
         [node |-> node, newN |-> written.nodes[node], before |-> written,
          res |-> splitIfOverflow(written, ns, node)])

\* the reloaded node is within MAX, or it has MAX + 1 = 2*MIN + 1 items and
\* is split into halves of MIN items around the middle item
SplitInHalves(c, min, max) ==
  /\ c.res.err = NoErr
  /\ IF Len(c.newN.items) > max
     THEN /\ Len(c.newN.items) = max + 1
          /\ Len(c.newN.items) = 2 * min + 1
          /\ c.res.pushUp.has
          /\ c.res.pushUp.leftSubtree = c.node
          /\ c.res.pushUp.rightSubtree \notin DOMAIN c.before.nodes
          /\ c.res.pushUp.item = c.newN.items[min + 1]
          /\ \E left \in {c.res.db.nodes[c.node]} :
               \E right \in {c.res.db.nodes[c.res.pushUp.rightSubtree]} :
                 /\ left.items = SubSeq(c.newN.items, 1, min)
                 /\ right.items = SubSeq(c.newN.items, min + 2, 2 * min + 1)
                 /\ Len(left.items) = min /\ Len(right.items) = min
                 /\ c.res.pushUp.item \notin Range(left.items) \cup Range(right.items)
                 /\ left.subtrees \o right.subtrees = c.newN.subtrees
                 /\ Len(c.newN.subtrees) > 0 =>
                      Len(left.subtrees) = min + 1 /\ Len(right.subtrees) = min + 1
     ELSE ~c.res.pushUp.has /\ c.res.db = c.before

\* C33: in every store committed by insert, delete, deleteIfExists, replace
\* and replaceOrInsert on trees of a valid fanout, for every insert of a new
\* key and every node on its path, the node reloaded after the local write
\* has at most MAX items or exactly MAX + 1 = 2*MIN + 1, so the sanity check
\* does not throw, and the split leaves MIN items in the node, puts MIN
\* items into the new right sibling and pushes up the middle item, which is
\* in neither.
C33_SplitSanity ==
  \A ns \in Namespaces : \A t \in TreesOf(ns) :
    \A k \in Keys \ KeysOf(db, ns) :
      /\ insertHandler(db, ns, k, LoadValue).err = NoErr
      /\ \A node \in InsertPath(db, t.root, k) :
           \E c \in {SplitCall(db, ns, node, k)} :
             SplitInHalves(c, t.maxNodeSize \div 2, t.maxNodeSize)

\* a replaceOrInsert returned, and in the store it left the insert of some
\* key splits a leaf and, above it, an internal node with subtrees
C33_Witness ==
  /\ LastReturned("replaceOrInsert")
  /\ \E t \in TreesOf("a") : \E k \in Keys \ KeysOf(db, "a") :
       \E node \in InsertPath(db, t.root, k) :
         \E c \in {SplitCall(db, "a", node, k)} :
           /\ Len(c.newN.items) > t.maxNodeSize
           /\ Len(c.newN.subtrees) > 0


---------------------------------------------------------------------------
(* Claims about what a mutation leaves alone (SpecAdmin).                  *)

\* the namespaces the pages of a walk of paginateNamespaces list in store d
ListedNamespaces(d) ==
  UNION {Range(c.page) : c \in Range(namespaceCalls(d, NAMESPACES_PAGE_SIZE, None,
                                                    Cardinality(d.trees)))}

\* C34: in every committed store, deleteIfExists(k) on a namespace that does
\* not hold k returns and leaves the whole store as it was: no Tree and no
\* node document is created, modified or deleted; a namespace without a
\* Tree document has none afterwards and is not listed by paginateNamespaces.
C34_DeleteIfExistsNoEffect ==
  \A ns \in AdminNamespaces, k \in AdminKeys :
    k \notin KeysOf(db, ns) =>
      \E r \in {deleteIfExists(db, ns, k)} :
        /\ r.err = NoErr
        /\ r.db = db
        /\ getTree(db, ns) = {} =>
             getTree(r.db, ns) = {} /\ ListedNamespaces(r.db) = ListedNamespaces(db)

\* C34, amended: deleteIfExists(k) on a namespace that does not hold k
\* returns; when the namespace has a Tree document the whole store is as it
\* was; when it has none, the call is its first write and creates its Tree,
\* with fanout 16 and a new empty leaf as root, which paginateNamespaces
\* lists from then on, and nothing else is created, modified or deleted.
C34_DeleteIfExistsCreatesTree ==
  \A ns \in AdminNamespaces, k \in AdminKeys :
    k \notin KeysOf(db, ns) =>
      \E r \in {deleteIfExists(db, ns, k)} :
        /\ r.err = NoErr
        /\ IF getTree(db, ns) # {} THEN r.db = db
           ELSE /\ \E t \in r.db.trees :
                     /\ r.db.trees = db.trees \cup {t}
                     /\ t.namespace = ns
                     /\ t.id = db.nextTreeId
                     /\ t.maxNodeSize = DEFAULT_MAX_NODE_SIZE
                     /\ t.root \notin DOMAIN db.nodes
                     /\ EmptyLeafRoot(r.db, t)
                     /\ DOMAIN r.db.nodes = DOMAIN db.nodes \cup {t.root}
                /\ \A id \in DOMAIN db.nodes : r.db.nodes[id] = db.nodes[id]
                /\ r.db.sched = db.sched
                /\ NamespaceOrNull(ns) \in ListedNamespaces(r.db)

\* a deleteIfExists on the namespace "a", which had no Tree document and no
\* key, returned after an init of another namespace: "a" has a Tree
C34_Witness ==
  /\ LastReturned("deleteIfExists")
  /\ ops = 2
  /\ oracle["a"] = {}
  /\ \E t \in TreesOf("a") :
       EmptyLeafRoot(db, t) /\ t.maxNodeSize = DEFAULT_MAX_NODE_SIZE /\ t.id = 2
  /\ \E t \in TreesOf(NULL_NS) : t.id = 1


\* what store d holds for a namespace: its Tree documents and the node
\* documents under their roots
NamespaceView(d, ns) ==
  [trees |-> getTree(d, ns),
   nodes |-> [id \in UNION {Reachable(d, t.root, Fuel(d)) \cap DOMAIN d.nodes :
                              t \in getTree(d, ns)} |-> d.nodes[id]]]

\* what the reads of a namespace answer in store d
NamespaceReads(d, ns) ==
  [get |-> [k \in AdminKeys |-> getHandler(d, ns, k)],
   pages |-> [order \in Orders |-> FirstPage(d, ns, order, NAMESPACES_PAGE_SIZE)]]

\* the maxNodeSize arguments of the init and clear calls: omitted, valid, odd
IsolationFanouts == {None, Some(4), Some(5)}

\* what store d holds and answers for every namespace
StoreViews(d) ==
  [ns \in AdminNamespaces |->
     [view |-> NamespaceView(d, ns), reads |-> NamespaceReads(d, ns)]]

\* the store r.db a mutation returned with holds for the namespaces other
\* than those in touched what the store before held for them
OthersKept(before, result, touched) ==
  \E r \in {result} :
    r.err = NoErr =>
      \A other \in AdminNamespaces \ touched :
        /\ NamespaceView(r.db, other) = before[other].view
        /\ NamespaceReads(r.db, other) = before[other].reads

\* the same for the documents alone
OtherTreesKept(before, result, touched) ==
  \E r \in {result} :
    r.err = NoErr =>
      \A other \in AdminNamespaces \ touched :
        NamespaceView(r.db, other) = before[other].view

\* the keys of the two namespaces after a replace across namespaces
KeyMoved(r, ns, newNs, currentKey, newKey) ==
  r.err = NoErr /\ ns # newNs =>
    /\ KeysOf(r.db, ns) = KeysOf(db, ns) \ {currentKey}
    /\ KeysOf(r.db, newNs) = KeysOf(db, newNs) \cup {newKey}

\* C35: in every committed store, init, clear, insert, delete and
\* deleteIfExists on a namespace leave the Tree document and every node of
\* every other namespace as they were, and with them the answers of get and
\* paginate there; replace and replaceOrInsert change only the trees of
\* their namespace and newNamespace, taking currentKey from the former and
\* adding newKey to the latter when the two differ.
C35_NamespaceIsolation ==
  \E before \in {StoreViews(db)} :
    \A ns \in AdminNamespaces :
      /\ \A f \in IsolationFanouts :
           /\ OthersKept(before, init(db, ns, f), {ns})
           /\ OthersKept(before, clear(db, ns, f), {ns})
      /\ \A k \in AdminKeys :
           /\ OthersKept(before, insert(db, ns, k, LoadValue), {ns})
           /\ OthersKept(before, delete_(db, ns, k), {ns})
           /\ OthersKept(before, deleteIfExists(db, ns, k), {ns})
           /\ \A newNs \in AdminNamespaces, newKey \in AdminKeys :
                /\ \E r \in {replace(db, ns, newNs, k, newKey, LoadValue)} :
                     OtherTreesKept(before, r, {ns, newNs})
                       /\ KeyMoved(r, ns, newNs, k, newKey)
                /\ \E r \in {replaceOrInsert(db, ns, newNs, k, newKey, LoadValue)} :
                     OtherTreesKept(before, r, {ns, newNs})
                       /\ KeyMoved(r, ns, newNs, k, newKey)

\* a replace took a key from the loaded tree of "a" to the null namespace:
\* both hold keys in the store it left
C35_Witness ==
  /\ LastReturned("replace")
  /\ KeysOf(db, NULL_NS) # {}
  /\ Cardinality(KeysOf(db, "a")) >= 4
  /\ \E t \in TreesOf("a") : Len(db.nodes[t.root].subtrees) > 0


---------------------------------------------------------------------------
(* SpecCleanup: the work items of clear, interleaved with later mutations  *)
(* on the cleared namespace and on another one.                            *)

CleanupNamespaces == {"a", NULL_NS}
CleanupOps == MaxOps + 1

NextCleanup ==
  \/ \E ns \in Namespaces, f \in InitFanouts : InitTree(ns, Some(f))
  \/ \E ns \in Namespaces, k \in SmallKeys : LoadInsert(ns, k)
  \/ \E ns \in CleanupNamespaces, f \in InitFanouts :
       ops < CleanupOps /\ InitNamespace(ns, Some(f))
  \/ \E ns \in CleanupNamespaces : ops < CleanupOps /\ Clear(ns, None)
  \/ \E ns \in CleanupNamespaces, k \in AdminKeys :
       ops < CleanupOps /\ Insert(ns, k, LoadValue)
  \/ \E ns \in CleanupNamespaces, k \in AdminKeys :
       ops < CleanupOps /\ Delete(ns, k)
  \/ \E ns \in CleanupNamespaces, newNs \in CleanupNamespaces, k \in AdminKeys :
       ops + 2 <= CleanupOps /\ Replace(ns, newNs, k, k, LoadValue)
  \/ RunScheduled

SpecCleanup == Init /\ [][NextCleanup]_vars

\* C36: a deleteTreeNodes work item, however it is interleaved with later
\* init, insert, delete, replace and clear transactions, never deletes a
\* node that is reachable from the root of a Tree document in the store at
\* that time: the nodes that pending work items will come to are disjoint
\* from the nodes of the trees, and a run of a work item leaves every Tree
\* document and every node under a root as it was.
C36_CleanupSparesTrees ==
  /\ PendingNodes(db) \cap OwnedNodes(db) = {}
  /\ \A node \in db.sched :
       \E r \in {deleteTreeNodes(db, node)} :
         r.err = NoErr =>
           /\ (DOMAIN db.nodes \ DOMAIN r.db.nodes) = {node}
           /\ node \notin OwnedNodes(db)
           /\ r.db.sched \cap OwnedNodes(db) = {}
           /\ r.db.trees = db.trees
           /\ \A id \in OwnedNodes(db) :
                id \in DOMAIN r.db.nodes /\ r.db.nodes[id] = db.nodes[id]

\* a work item of the first clear of "a" ran after "a" was cleared a second
\* time and a key was inserted: the tree of "a" holds the key, both old
\* roots are gone, work items for the first tree's leaves are pending
C36_Witness ==
  /\ last = [op |-> "deleteTreeNodes", err |-> NoErr]
  /\ ops = CleanupOps
  /\ KeysOf(db, "a") # {}
  /\ db.sched # {}
  /\ db.sched \subseteq DOMAIN db.nodes
  /\ \E t \in TreesOf("a") : t.id >= 3


---------------------------------------------------------------------------
(* Claims about the loop of clearAll (SpecAdmin).  The loop is run from    *)
(* every store the workload reaches, with nothing interleaved: a round is  *)
(* one paginateNamespaces query of iterNamespaces followed by one clear    *)
(* per entry of its page.                                                  *)

ClearAllRounds == 4

ClearAllPageSizes == {1, 2, 3, NAMESPACES_PAGE_SIZE}

\* the Tree documents a paginateNamespaces query with this cursor ranges over
TreesAfter(d, cursor) == {t \in d.trees : cursor = None \/ t.id > The(cursor)}

\* the clear calls of clearAll for the entries of one page, in page order
RECURSIVE ClearPage(_, _, _)
ClearPage(d, page, opts) ==
  IF page = <<>> THEN [err |-> NoErr, db |-> d]
  ELSE Bind(clear(d, YieldedNamespace(Head(page)), opts), LAMBDA r :
         IF r.err # NoErr THEN r ELSE ClearPage(r.db, Tail(page), opts))

\* one round of the loop: the query, the clears, then isDone and the cursor
\* of the query become those of iterNamespaces
ClearAllRound(d, pageSize, opts, cursor) ==
  Bind(paginateNamespacesHandler(d, pageSize, cursor), LAMBDA p :
    IF p.err # NoErr
    THEN [err |-> p.err, db |-> d, cursor |-> cursor, isDone |-> FALSE]
    ELSE Bind(ClearPage(d, p.page, opts), LAMBDA c :
           [err |-> c.err, db |-> c.db, cursor |-> Some(p.cursor),
            isDone |-> c.err = NoErr /\ p.isDone]))

\* the loop, cut after the given number of rounds: isDone tells whether
\* iterNamespaces ended within them
RECURSIVE ClearAllLoop(_, _, _, _, _)
ClearAllLoop(d, pageSize, opts, cursor, rounds) ==
  IF rounds = 0
  THEN [err |-> NoErr, db |-> d, cursor |-> cursor, isDone |-> FALSE]
  ELSE Bind(ClearAllRound(d, pageSize, opts, cursor), LAMBDA r :
         IF r.err # NoErr \/ r.isDone THEN r
         ELSE ClearAllLoop(r.db, pageSize, opts, r.cursor, rounds - 1))

\* C37: clearAll terminates.  From every store and for every page size
\* >= 1, the loop that alternates paginateNamespaces pages with clear calls
\* reaches isDone (here: within ClearAllRounds rounds, more rounds than
\* there are Trees).
C37_ClearAllTerminates ==
  \A pageSize \in ClearAllPageSizes :
    \E r \in {ClearAllLoop(db, pageSize, None, None, ClearAllRounds)} :
      r.err = NoErr /\ r.isDone

\* with fewer Trees than the page size the first page is short and the
\* loop ends after one round
ClearAllShortPageEnds ==
  \A pageSize \in ClearAllPageSizes :
    Cardinality(db.trees) < pageSize =>
      \E r \in {ClearAllLoop(db, pageSize, None, None, 1)} :
        r.err = NoErr /\ r.isDone

\* the cursors a round can start from
LoopCursors(d) == {None} \cup {Some(id) : id \in 1..d.nextTreeId}

\* a full page refills: when at least pageSize Trees lie after the cursor
\* and none is the Tree of the null namespace, the round does not end the
\* loop and leaves at least pageSize Trees after the new cursor, so that no
\* later round ends it either
ClearAllFullPageRepeats ==
  \A pageSize \in ClearAllPageSizes, cursor \in LoopCursors(db) :
    (/\ Cardinality(TreesAfter(db, cursor)) >= pageSize
     /\ \A t \in db.trees : t.namespace # NULL_NS)
    => \E r \in {ClearAllRound(db, pageSize, None, cursor)} :
         /\ r.err = NoErr
         /\ ~r.isDone
         /\ Cardinality(TreesAfter(r.db, r.cursor)) >= pageSize
         /\ \A t \in r.db.trees : t.namespace # NULL_NS

====
